---- MODULE Spec2Model ----
(***************************************************************************)
(* A model of the wire core of the AMQP 0-9-1 streaming client:            *)
(*   - Connection.channel_open and the `channels` map,                     *)
(*   - ChannelAbstract.call_api / handle_method / destroy,                 *)
(*   - DecodeStream (the frame demuxer),                                   *)
(*   - ConsumeStream (content assembly),                                   *)
(*   - PublishStream (publish with confirms),                              *)
(*   - the ack / nack closures of a consumed message,                      *)
(*   - the heartbeat check of the connection,                              *)
(*   - Connection.destroy and the handlers of a broker-sent close,         *)
(*   - a message published and consumed again (encode, then decode),       *)
(*   - BufferWriter and the API encoders (the frames written),             *)
(*   - the close() of a child channel,                                     *)
(*   - the connection timeout of Client._connect,                          *)
(*   - Connection.open (the handshake and the heartbeat tasks),            *)
(*   - ChannelConsume.unsubscribe and the end of its pipeline,             *)
(*   - the consumer tag check of ConsumeStream,                            *)
(*   - the body frames pushed to the readable of a message,                *)
(*   - CommandBase.execute (the queue and exchange helpers).               *)
(* Each part has its own specification over the shared variables; the      *)
(* variables of the other parts stay at their initial values.              *)
(***************************************************************************)
EXTENDS Integers, Sequences, FiniteSets, TLC

VARIABLES
    \* ---- Connection (channel allocation) ----
    channels,       \* Connection.channels: channel id -> [open_ok]
    opened,         \* Connection.opened
    blocked,        \* Connection.blocked
    destroyed,      \* Connection.destroyed
    open_calls,     \* channel_open calls whose nextTick callback has not run yet
    open_result,    \* what the last channel_open callback did
    channel_max,    \* Connection.options.channel_max after the tune negotiation
    \* ---- one child channel (ChannelAbstract) ----
    request_callbacks,  \* method id -> waiters in Map insertion order
    waiters,        \* one record per call_api call with expected replies
    ticks,          \* the process.nextTick queue (FIFO)
    ch_destroyed,   \* the channel's `destroyed`
    now,            \* Date.now() in ms
    routed,         \* what the last handle_method callback did
    exited,         \* fatal() ended the process
    rejected_with,  \* the error the callbacks were last rejected with
    \* ---- DecodeStream (frame demuxer) ----
    dec_wire,       \* bytes the broker has sent and the socket has not delivered yet
    dec_all,        \* every byte the broker has sent
    dec_cache,      \* DecodeStream.cache
    dec_mode,       \* DecodeStream.decode: "_init" or "_decode"
    dec_out,        \* the frames dispatched to handle_method / _body / _header / _heartbeat
    dec_error,      \* the error that ended the stream ("none": still running)
    \* ---- ConsumeStream (content assembly of a consume channel) ----
    cs_current,     \* ConsumeStream._current: "none", "deliver" (no properties yet), "body"
    cs_wait_size,   \* ConsumeStream._wait_size
    cs_messages,    \* the messages pushed to the reader, with their body readables
    cs_delivers,    \* the deliver chunks taken in
    cs_last,        \* the chunk _writeAsync handled last and what it did
    cs_error,       \* the error _writeAsync threw ("none": still running)
    cs_destroyed,   \* the error the consume channel was destroyed with ("none": alive)
    \* ---- PublishStream (publisher with confirms) ----
    pb_hwm,         \* the highWaterMark the stream was created with
    pb_init,        \* what _init wrote and received on the new channel, in order
    pb_msgs,        \* the messages written to the stream, in order, with their progress
    pb_writing,     \* the message whose _writeAsync has not settled (0: none)
    pb_inited,      \* _publish is _publish_chunk: channel opened and confirm selected
    pb_write_ok,    \* what the last write() returned
    pb_wire,        \* the frames written to the socket on the publish channel
    pb_net,         \* the broker's replies on their way to the client
    pb_answers,     \* the broker's first answer to each delivery tag
    pb_recv,        \* the delivery tags a reply was received for
    pb_exited,      \* fatal() ended the process
    \* ---- acknowledgement actions of the delivered messages ----
    cs_called,      \* the delivery tags whose `called` flag is set
    cs_ack_calls,   \* the calls of ack() and nack(requeue) made so far, in order
    cs_ack_frames,  \* the basic.ack and basic.nack frames written
    \* ---- heartbeat check of an open connection (times in ms) ----
    hb_H,           \* options.heartbeat, the heartbeat of the client in seconds
    hb_now,         \* Date.now()
    hb_heartbeat,   \* Connection.heartbeat
    hb_check_at,    \* when the callback of _interval_ck_hb is due (-1: no interval)
    hb_checks,      \* the runs of that callback so far
    hb_last_chunk,  \* when the last inbound chunk arrived
    hb_seen_hb,     \* a heartbeat frame has arrived
    hb_destroyed,   \* the error the heartbeat check destroyed the connection with
    \* ---- Connection.destroy and broker-sent close (part_002 167-179, 420-425, 605-626, 697-728) ----
    cd_channels,    \* keys of Connection.channels
    cd_destroyed,   \* destroyed flag of the connection (0) and of each child object
    cd_error,       \* error each object was last destroyed with
    cd_waiters,     \* call_api promises: channel, kind, state, arg, error
    cd_timers,      \* heartbeat timers that are set
    cd_socket,      \* open or destroyed
    cd_wire,        \* frames the client wrote to the socket
    cd_log,         \* effects of Connection.destroy in the order they happened
    cd_closing,     \* broker close handlers between close_ok and destroy
    cd_exited,      \* process.exit(1) was called by fatal
    cd_closed,      \* ChannelAbstract.closed of the connection (0) and of each child
    \* ---- One message from a publisher through the broker to a consumer ----
    e2e_input,      \* the message the application publishes
    e2e_stage,      \* where the publisher is: idle, publish, header, body, sent
    e2e_chunks,     \* chunks of the body readable not written yet
    e2e_up,         \* frames the publisher wrote that the broker has not read
    e2e_broker,     \* the broker's view of the publishing connection and the content it assembles
    e2e_down,       \* frames the broker wrote to the consumer that are not handled yet
    e2e_current,    \* ConsumeStream._current
    e2e_wait_size,  \* ConsumeStream._wait_size
    e2e_delivered,  \* messages the consumer stream pushed to the application
    e2e_stream,     \* the consumer stream: open, ended or error
    e2e_acks,       \* basic.ack frames the consumer wrote
    \* ---- BufferWriter and the API encoders (frames written to the socket) ----
    fw_wire,        \* the frames written to the socket: [call, kind, dynamic, bytes]
    fw_calls,       \* the sends made: [api, name, error]
    \* ---- Client._connect (the socket timeout) ----
    ct_now,         \* ms since the socket connected
    ct_last,        \* time of the last read or write on the socket
    ct_steps,       \* handshake steps done (HandshakeSteps: connection.open resolved)
    ct_socket,      \* open, or timeout once the timeout callback destroyed it
    \* ---- Connection.open (the handshake) ----
    op_stage,       \* where open() is: idle, start, secure_or_tune, open_ok, opened, failed
    op_options,     \* Connection.options: channel_max, frame_max, heartbeat
    op_tick,        \* the frame the deferred send of call_api will write, or none
    op_waiting,     \* the reply ids the registered waiter of open() waits for
    op_wire,        \* the frames open() wrote to the socket
    op_recv,        \* the methods received from the broker
    op_opened,      \* Connection.opened
    op_error,       \* the error open() failed with
    op_exited,      \* process.exit(1) was called by fatal
    op_tune,        \* the arguments of the connection.tune open() took, if any
    op_tune_ok,     \* the tune_ok value open() handed to its encoder, if any
    op_hb,          \* the heartbeat tasks started by open()
    \* ---- ChannelConsume.unsubscribe ----
    us_unsubscribed,\* the channels unsubscribe() has cancelled
    us_ended,       \* per channel, how often unsubscribe() pushed the end of the stream into _input
    us_calls,       \* per channel, the unsubscribe() calls made
    us_piped,       \* the channels whose pipeline callback of subscribe has run
    \* ---- ChannelConsume: the consumer tag ----
    tg_stage,       \* subscribe(): idle, consume (basic.consume sent), resolved (consume-ok taken), subscribed
    tg_tag,         \* ChannelConsume._consumer_tag, empty while it is not set
    tg_ok,          \* the consumer tag of the basic.consume-ok the broker sent, empty before
    tg_queue,       \* the methods handle_method deferred to nextTick
    tg_pushed,      \* the consumer tags of the deliver chunks pushed into _input
    tg_destroyed,   \* the error the channel was destroyed with, or none
    tg_delivers,    \* the basic.deliver methods the broker has sent
    \* ---- the body readable of one delivery ----
    bp_current,     \* ConsumeStream._current: none, body (a body readable is open), done
    bp_wait_size,   \* ConsumeStream._wait_size
    bp_buffered,    \* the bytes in the buffer of the body readable
    bp_read,        \* the bytes the application has read from the body readable
    bp_error,       \* the error _writeAsync threw, or none
    \* ---- CommandBase.execute ----
    cm_stage,       \* per command call, where execute() is: idle, connect, channel_open, command, channel_close, connection_close, settled
    cm_outcome,     \* per command call, how it settled: none, result, error
    cm_channel,     \* per command call, its channel: none, open, destroyed
    cm_socket       \* per command call, the socket of its connection: none, open, destroyed

connVars == <<channels, opened, blocked, destroyed, open_calls, open_result, channel_max>>

chanVars == <<request_callbacks, waiters, ticks, ch_destroyed, now, routed, exited,
             rejected_with>>

decVars == <<dec_wire, dec_all, dec_cache, dec_mode, dec_out, dec_error>>

csVars == <<cs_current, cs_wait_size, cs_messages, cs_delivers, cs_last, cs_error, cs_destroyed>>

pbVars == <<pb_hwm, pb_init, pb_msgs, pb_writing, pb_inited, pb_write_ok, pb_wire, pb_net,
            pb_answers, pb_recv, pb_exited>>

ackVars == <<cs_called, cs_ack_calls, cs_ack_frames>>

hbVars == <<hb_H, hb_now, hb_heartbeat, hb_check_at, hb_checks, hb_last_chunk, hb_seen_hb, hb_destroyed>>

cdVars == <<cd_channels, cd_destroyed, cd_error, cd_waiters, cd_timers, cd_socket, cd_wire, cd_log, cd_closing, cd_exited, cd_closed>>

e2eVars == <<e2e_input, e2e_stage, e2e_chunks, e2e_up, e2e_broker, e2e_down, e2e_current, e2e_wait_size, e2e_delivered, e2e_stream, e2e_acks>>

fwVars == <<fw_wire, fw_calls>>

ctVars == <<ct_now, ct_last, ct_steps, ct_socket>>

opVars == <<op_stage, op_options, op_tick, op_waiting, op_wire, op_recv, op_opened, op_error, op_exited,
           op_tune, op_tune_ok, op_hb>>

usVars == <<us_unsubscribed, us_ended, us_calls, us_piped>>

tgVars == <<tg_stage, tg_tag, tg_ok, tg_queue, tg_pushed, tg_destroyed, tg_delivers>>

bpVars == <<bp_current, bp_wait_size, bp_buffered, bp_read, bp_error>>

cmVars == <<cm_stage, cm_outcome, cm_channel, cm_socket>>

vars == <<connVars, chanVars, decVars, csVars, pbVars, ackVars, hbVars, cdVars, e2eVars, fwVars, ctVars, opVars, usVars, tgVars, bpVars, cmVars>>

\* what the actions of one part leave alone
notConn == <<chanVars, decVars, csVars, pbVars, ackVars, hbVars, cdVars, e2eVars, fwVars, ctVars, opVars, usVars, tgVars, bpVars, cmVars>>
notChan == <<connVars, decVars, csVars, pbVars, ackVars, hbVars, cdVars, e2eVars, fwVars, ctVars, opVars, usVars, tgVars, bpVars, cmVars>>
notDec == <<connVars, chanVars, csVars, pbVars, ackVars, hbVars, cdVars, e2eVars, fwVars, ctVars, opVars, usVars, tgVars, bpVars, cmVars>>
notCs == <<connVars, chanVars, decVars, pbVars, ackVars, hbVars, cdVars, e2eVars, fwVars, ctVars, opVars, usVars, tgVars, bpVars, cmVars>>
notPb == <<connVars, chanVars, decVars, csVars, ackVars, hbVars, cdVars, e2eVars, fwVars, ctVars, opVars, usVars, tgVars, bpVars, cmVars>>
notAck == <<connVars, chanVars, decVars, csVars, pbVars, hbVars, cdVars, e2eVars, fwVars, ctVars, opVars, usVars, tgVars, bpVars, cmVars>>
notConnChan == <<decVars, csVars, pbVars, ackVars, hbVars, cdVars, e2eVars, fwVars, ctVars, opVars, usVars, tgVars, bpVars, cmVars>>
notHb == <<connVars, chanVars, decVars, csVars, pbVars, ackVars, cdVars, e2eVars, fwVars, ctVars, opVars, usVars, tgVars, bpVars, cmVars>>
notCd == <<connVars, chanVars, decVars, csVars, pbVars, ackVars, hbVars, e2eVars, fwVars, ctVars, opVars, usVars, tgVars, bpVars, cmVars>>
notConnDec == <<chanVars, csVars, pbVars, ackVars, hbVars, cdVars, e2eVars, fwVars, ctVars, opVars, usVars, tgVars, bpVars, cmVars>>
notE2e == <<connVars, chanVars, decVars, csVars, pbVars, ackVars, hbVars, cdVars, fwVars, ctVars, opVars, usVars, tgVars, bpVars, cmVars>>
notFw == <<connVars, chanVars, decVars, csVars, pbVars, ackVars, hbVars, cdVars, e2eVars, ctVars, opVars, usVars, tgVars, bpVars, cmVars>>
notCt == <<connVars, chanVars, decVars, csVars, pbVars, ackVars, hbVars, cdVars, e2eVars, fwVars, opVars, usVars, tgVars, bpVars, cmVars>>
notOp == <<connVars, chanVars, decVars, csVars, pbVars, ackVars, hbVars, cdVars, e2eVars, fwVars, ctVars, usVars, tgVars, bpVars, cmVars>>
notUs == <<connVars, chanVars, decVars, csVars, pbVars, ackVars, hbVars, cdVars, e2eVars, fwVars, ctVars, opVars, tgVars, bpVars, cmVars>>
notCdUs == <<connVars, chanVars, decVars, csVars, pbVars, ackVars, hbVars, e2eVars, fwVars, ctVars, opVars, tgVars, bpVars, cmVars>>
notTg == <<connVars, chanVars, decVars, csVars, pbVars, ackVars, hbVars, cdVars, e2eVars, fwVars, ctVars, opVars, usVars, bpVars, cmVars>>
notBp == <<connVars, chanVars, decVars, csVars, pbVars, ackVars, hbVars, cdVars, e2eVars, fwVars, ctVars, opVars, usVars, tgVars, cmVars>>
notCm == <<connVars, chanVars, decVars, csVars, pbVars, ackVars, hbVars, cdVars, e2eVars, fwVars, ctVars, opVars, usVars, tgVars, bpVars>>

(***************************************************************************)
(* Bounds of the model.                                                    *)
(***************************************************************************)
\* options.channel_max after tuning (an input of the handshake)
ChannelMax == 11
\* a channel_max small enough for the limit of channel_open to be reached
SmallChannelMax == 2
\* channel_open calls that overlap (callback not run, or open-ok not arrived)
MaxOverlap == 2
\* call_api calls made by the application on the channel
MaxCalls == 2
\* method frames dispatched whose nextTick callback has not run yet
MaxInFlight == 1
\* milliseconds that pass
MaxTime == 1
\* frames the broker sends
MaxFrames == 2
\* deliveries on the consume channel
MaxMsgs == 2
\* the largest body_size a header declares
MaxBody == 3
\* the longest body frame
MaxFrameLen == 2
\* messages written to a publish stream
MaxPub == 3
\* the negotiated frame_max of the publisher, in body bytes
FrameMax == 2
\* the largest highWaterMark of a publish stream
MaxHwm == 2
\* calls of ack() and nack() on the delivered messages
MaxAckCalls == 3
\* the largest heartbeat option of the client, in seconds
MaxHb == 1
\* the time of the heartbeat model passes in steps of ClockStep ms up to MaxClock
ClockStep == 50
MaxClock == 3200
\* how late a timer callback runs at most, in ms
MaxLate == 100
\* child channels of the connection whose destruction is followed
CdChildren == 2
\* call_api calls made by the user while the connection is being destroyed
MaxCdCalls == 2
\* longest body of the message that travels from a publisher to a consumer
MaxE2eBody == 5

(***************************************************************************)
(* Helpers.                                                                *)
(***************************************************************************)
Min(a, b) == IF a < b THEN a ELSE b

MaxOf(S) == CHOOSE x \in S : \A y \in S : y <= x

Range(s) == {s[i] : i \in 1..Len(s)}

RECURSIVE SeqOfSet(_)
\* some enumeration of a finite set of numbers (here: ascending)
SeqOfSet(S) ==
    IF S = {} THEN <<>>
    ELSE LET m == CHOOSE x \in S : \A y \in S : x <= y
         IN <<m>> \o SeqOfSet(S \ {m})

(***************************************************************************)
(* Array.prototype.sort() without a comparator: the elements are converted *)
(* to strings and ordered by their UTF-16 code units; the sort is stable.  *)
(***************************************************************************)
RECURSIVE NumberToString(_)
\* String(n) of a non-negative integer, as code units ('0' is 48)
NumberToString(n) ==
    IF n < 10 THEN <<48 + n>>
    ELSE Append(NumberToString(n \div 10), 48 + (n % 10))

\* a < b for strings (sequences of code units)
StrLess(a, b) ==
    \E i \in 1..(Min(Len(a), Len(b)) + 1) :
        /\ \A j \in 1..(i - 1) : a[j] = b[j]
        /\ \/ i > Len(a) /\ i <= Len(b)
           \/ i <= Len(a) /\ i <= Len(b) /\ a[i] < b[i]

\* insert the pair p = <<string, value>> after every element not greater than it
RECURSIVE InsertStable(_, _)
InsertStable(sorted, p) ==
    IF sorted = <<>> THEN <<p>>
    ELSE IF StrLess(p[1], Head(sorted)[1]) THEN <<p>> \o sorted
         ELSE <<Head(sorted)>> \o InsertStable(Tail(sorted), p)

RECURSIVE JSSortPairs(_)
\* the pairs <<string, value>> in the order sort() leaves the values
JSSortPairs(pairs) ==
    IF pairs = <<>> THEN <<>>
    ELSE InsertStable(JSSortPairs(SubSeq(pairs, 1, Len(pairs) - 1)), pairs[Len(pairs)])

\* Array.from(numbers).sort()
JSSortNumbers(s) ==
    LET pairs  == [i \in 1..Len(s) |-> <<NumberToString(s[i]), s[i]>>]
        sorted == JSSortPairs(pairs)
    IN [i \in 1..Len(sorted) |-> sorted[i][2]]

(***************************************************************************)
(* Connection.channel_open: the id chosen for the new channel.             *)
(***************************************************************************)
\* lines 648-663: sort the keys, then last+1 or the first gap below the last
ChannelIdFor(chs) ==
    LET ids == JSSortNumbers(SeqOfSet(DOMAIN chs))
    IN  IF Len(ids) = 0 THEN 1
        ELSE LET last_id == ids[Len(ids)]
                 free    == {i \in 1..(last_id - 1) : i \notin DOMAIN chs}
             IN  IF last_id > Len(ids)
                 THEN (IF free # {} THEN MaxOf(free) ELSE 1)
                 ELSE last_id + 1

\* frame: the call went on to channel.call_api([channel_open_ok], ...), which
\* writes the channel.open frame (lines 670-673)
NoOpen == [outcome |-> "none", was_key |-> FALSE, in_range |-> TRUE, frame |-> FALSE]

\* channel_open(): the allocation is deferred to process.nextTick
ChannelOpenCall ==
    /\ open_calls + Cardinality({c \in DOMAIN channels : ~channels[c].open_ok}) < MaxOverlap
    /\ open_calls' = open_calls + 1
    /\ UNCHANGED <<channels, opened, blocked, destroyed, open_result, channel_max>>
    /\ UNCHANGED notConn

\* a blocked connection still counts as active
InactiveUnlessBlocked == ~opened \/ destroyed

\* line 640: !this.opened || this.destroyed || this.blocked
Inactive == ~opened \/ destroyed \/ blocked

\* the nextTick callback of channel_open
ChannelOpenTick ==
    /\ open_calls > 0
    /\ open_calls' = open_calls - 1
    /\ IF Inactive
       THEN /\ open_result' = [NoOpen EXCEPT !.outcome = "inactive"]
            /\ UNCHANGED channels
       ELSE IF Cardinality(DOMAIN channels) = channel_max
       THEN /\ open_result' = [NoOpen EXCEPT !.outcome = "limit"]
            /\ UNCHANGED channels
       ELSE LET id == ChannelIdFor(channels)
            IN  /\ open_result' = [outcome  |-> "assigned",
                                   was_key  |-> id \in DOMAIN channels,
                                   in_range |-> id \in 1..channel_max,
                                   frame    |-> TRUE]
                /\ channels' = [c \in DOMAIN channels \cup {id} |->
                                   IF c = id THEN [open_ok |-> FALSE] ELSE channels[c]]
    /\ UNCHANGED <<opened, blocked, destroyed, channel_max>>
    /\ UNCHANGED notConn

\* channel.open-ok arrives: the call_api of channel_open resolves
ChannelOpenOk(c) ==
    /\ c \in DOMAIN channels
    /\ ~channels[c].open_ok
    /\ channels' = [channels EXCEPT ![c].open_ok = TRUE]
    /\ UNCHANGED <<opened, blocked, destroyed, open_calls, open_result, channel_max>>
    /\ UNCHANGED notConn

\* ChannelChildAbstract.destroy (also the end of close()): the id leaves the map
ChannelDestroy(c) ==
    /\ c \in DOMAIN channels
    /\ channels' = [k \in DOMAIN channels \ {c} |-> channels[k]]
    /\ UNCHANGED <<opened, blocked, destroyed, open_calls, open_result, channel_max>>
    /\ UNCHANGED notConn

\* the end of Connection.open
ConnectionOpened ==
    /\ ~opened /\ ~destroyed
    /\ opened' = TRUE
    /\ UNCHANGED <<channels, blocked, destroyed, open_calls, open_result, channel_max>>
    /\ UNCHANGED notConn

\* handler of connection.blocked
ConnectionBlocked ==
    /\ opened /\ ~destroyed /\ ~blocked
    /\ blocked' = TRUE
    /\ UNCHANGED <<channels, opened, destroyed, open_calls, open_result, channel_max>>
    /\ UNCHANGED notConn

\* handler of connection.unblocked
ConnectionUnblocked ==
    /\ opened /\ ~destroyed /\ blocked
    /\ blocked' = FALSE
    /\ UNCHANGED <<channels, opened, destroyed, open_calls, open_result, channel_max>>
    /\ UNCHANGED notConn

\* Connection.destroy: every child channel is destroyed and removed
ConnectionDestroy ==
    /\ ~destroyed
    /\ channels' = <<>>
    /\ destroyed' = TRUE
    /\ UNCHANGED <<opened, blocked, open_calls, open_result, channel_max>>
    /\ UNCHANGED notConn

(***************************************************************************)
(* ChannelAbstract: call_api, handle_method, destroy of one child channel.  *)
(***************************************************************************)
BASIC_RETURN == 3932210
BASIC_ACK == 3932240
CHANNEL_CLOSE_OK == 1310761

\* the reply ids this channel sees
Methods == {BASIC_RETURN, BASIC_ACK, CHANNEL_CLOSE_OK}

\* (mutant) the no-op handler of basic.ack is not registered
HandlersNone == {}

\* ChannelPublish registers a handler for basic.ack (a no-op); the handlers of
\* ChannelChildAbstract (channel.flow, channel.close) are for requests of the
\* broker, which are no replies
Handlers == {BASIC_ACK}

\* the reply lists of the calls made on the channel
ReplyLists == {<<BASIC_RETURN, BASIC_ACK>>, <<BASIC_ACK>>}

\* String(x) of an object without toString: "[object Object]"
ObjectToString(x) == <<91, 111, 98, 106, 101, 99, 116, 32, 79, 98, 106, 101, 99, 116, 93>>

\* UniqueFactory.last_id is created when the module is loaded and never reassigned
UniqueFactoryLastId == [time |-> 0, sequence |-> 0]

\* UniqueFactory.generate() at time t
Generate(t) ==
    [time |-> t,
     sequence |-> IF t = UniqueFactoryLastId.time
                  THEN UniqueFactoryLastId.sequence + 1 ELSE 0]

\* Array.from(callbacks.keys()).sort(): the keys are UniqueId objects
SortedKeys(keys) ==
    LET pairs  == [i \in 1..Len(keys) |-> <<ObjectToString(waiters[keys[i]].uid), keys[i]>>]
        sorted == JSSortPairs(pairs)
    IN [i \in 1..Len(sorted) |-> sorted[i][2]]

\* (mutant) the newest waiter instead of the oldest
PickCallbackLast(keys) == keys[Len(keys)]

\* lines 191-196: the callback handle_method calls among those of one method id
PickCallback(keys) ==
    IF Len(keys) = 1 THEN keys[1] ELSE SortedKeys(keys)[1]

\* (mutant) the loop over the reply ids stops after the first
RegisteredOnFirst(responses) == <<Head(responses)>>

\* lines 153-160: the method ids on which the waiter is entered
RegisteredOn(responses) == responses

\* (mutant) clear() leaves only the list of the first reply id
ClearFirst(cbs, w) ==
    [m \in Methods |->
        IF m = Head(waiters[w].responses)
        THEN SelectSeq(cbs[m], LAMBDA x : x # w)
        ELSE cbs[m]]

\* clear(): the waiter leaves the list of each of its reply ids
Clear(cbs, w) ==
    [m \in Methods |->
        IF m \in Range(waiters[w].responses)
        THEN SelectSeq(cbs[m], LAMBDA x : x # w)
        ELSE cbs[m]]

\* route: what became of the method; pending: the number of waiters of its id
\* at that time; oldest: the smallest registration number among them; same_ms:
\* two of them have UniqueIds of the same millisecond; reg: the registration
\* number of the waiter resolved; expected: some call whose send() had started
\* was waiting for this id
NoRoute == [route |-> "none", method_id |-> 0, reg |-> 0, pending |-> 0, oldest |-> 0,
            same_ms |-> FALSE, expected |-> FALSE]

\* a settled waiter keeps only how it settled: "resolved" or "rejected"
Settled(w, state) ==
    [responses |-> <<>>, kind |-> waiters[w].kind, state |-> state, sent |-> TRUE,
     uid |-> Generate(0), reg_no |-> 0]

NewWaiter(responses, kind) ==
    [responses |-> responses, kind |-> kind, state |-> "tick", sent |-> FALSE,
     uid |-> Generate(0), reg_no |-> 0]

Registered == {w \in 1..Len(waiters) : waiters[w].state # "tick"}

\* call_api(responses, send) with a non-empty list: the registration is deferred
CallApi(responses) ==
    /\ ~exited
    /\ Cardinality({w \in 1..Len(waiters) : waiters[w].kind = "api"}) < MaxCalls
    /\ waiters' = Append(waiters, NewWaiter(responses, "api"))
    /\ ticks' = Append(ticks, [type |-> "register", arg |-> Len(waiters) + 1])
    /\ UNCHANGED <<request_callbacks, ch_destroyed, now, routed, exited, rejected_with>>
    /\ UNCHANGED notChan

\* the nextTick callback of call_api: generate the id, enter the callback in the
\* list of every reply id, then start send()
RegisterTick ==
    /\ ~exited
    /\ ticks # <<>> /\ Head(ticks).type = "register"
    /\ LET w == Head(ticks).arg
       IN  /\ waiters' = [waiters EXCEPT ![w].state = "pending",
                                         ![w].sent = TRUE,
                                         ![w].uid = Generate(now),
                                         ![w].reg_no = Cardinality(Registered) + 1]
           /\ request_callbacks' =
                 [m \in Methods |->
                     IF m \in Range(RegisteredOn(waiters[w].responses))
                     THEN Append(request_callbacks[m], w)
                     ELSE request_callbacks[m]]
    /\ ticks' = Tail(ticks)
    /\ UNCHANGED <<ch_destroyed, now, routed, exited, rejected_with>>
    /\ UNCHANGED notChan

\* send() fails (the write reports an error): callback(error)
SendFail(w) ==
    /\ ~exited
    /\ w \in 1..Len(waiters)
    /\ waiters[w].state = "pending" /\ waiters[w].sent
    /\ waiters' = [waiters EXCEPT ![w] = Settled(w, "rejected")]
    /\ rejected_with' = "send_error"
    /\ request_callbacks' = Clear(request_callbacks, w)
    \* the call_close of destroy() ends in fatal() when it is rejected
    /\ exited' = (waiters[w].kind = "close")
    /\ UNCHANGED <<ticks, ch_destroyed, now, routed>>
    /\ UNCHANGED notChan

\* DecodeStream dispatches a method frame: handle_method defers to nextTick
RecvMethod(m) ==
    /\ ~exited
    /\ Cardinality({i \in 1..Len(ticks) : ticks[i].type = "method"}) < MaxInFlight
    /\ ticks' = Append(ticks, [type |-> "method", arg |-> m])
    /\ UNCHANGED <<request_callbacks, waiters, ch_destroyed, now, routed, exited,
                   rejected_with>>
    /\ UNCHANGED notChan

\* the nextTick callback of handle_method
MethodTick ==
    /\ ~exited
    /\ ticks # <<>> /\ Head(ticks).type = "method"
    /\ ticks' = Tail(ticks)
    /\ LET m    == Head(ticks).arg
           keys == request_callbacks[m]
           info == [NoRoute EXCEPT !.method_id = m,
                        !.pending = Len(keys),
                        !.oldest = IF keys = <<>> THEN 0
                                   ELSE -MaxOf({-waiters[k].reg_no : k \in Range(keys)}),
                        !.same_ms = \E i, j \in 1..Len(keys) :
                                       /\ i < j
                                       /\ waiters[keys[i]].uid.time = waiters[keys[j]].uid.time,
                        !.expected = \E w \in 1..Len(waiters) :
                                          /\ waiters[w].state = "pending"
                                          /\ waiters[w].sent
                                          /\ m \in Range(waiters[w].responses)]
       IN  IF ch_destroyed
           THEN /\ routed' = [info EXCEPT !.route = "drop"]
                /\ UNCHANGED <<request_callbacks, waiters, exited>>
           ELSE IF Len(keys) > 0
           THEN LET w == PickCallback(keys)
                IN  /\ routed' = [info EXCEPT !.route = "waiter", !.reg = waiters[w].reg_no]
                    /\ waiters' = [waiters EXCEPT ![w] = Settled(w, "resolved")]
                    /\ request_callbacks' = Clear(request_callbacks, w)
                    /\ UNCHANGED exited
           ELSE IF m \in Handlers
           THEN /\ routed' = [info EXCEPT !.route = "handler"]
                /\ UNCHANGED <<request_callbacks, waiters, exited>>
           ELSE /\ routed' = [info EXCEPT !.route = "fatal"]
                /\ exited' = TRUE
                /\ UNCHANGED <<request_callbacks, waiters>>
    /\ UNCHANGED <<ch_destroyed, now, rejected_with>>
    /\ UNCHANGED notChan

\* the id of the child channel
ThisChannel == 1

\* (mutant) the callbacks are rejected with the default error
RejectErrorDefault(error) == "connection_forced"

\* line 173: the error a waiter is rejected with by destroy(error)
RejectError(error) == IF error = "none" THEN "connection_forced" ELSE error

\* ChannelChildAbstract.destroy(error), the socket being open: a live channel
\* starts call_close (a call_api for channel.close_ok), every registered
\* callback is rejected, the channel is marked destroyed and leaves `channels`
Destroy(error) ==
    /\ ~exited
    /\ LET hit == UNION {Range(request_callbacks[m]) : m \in Methods}
           rejected == [w \in 1..Len(waiters) |->
                           IF w \in hit
                           THEN Settled(w, "rejected")
                           ELSE waiters[w]]
       IN  /\ ~ch_destroyed \/ hit # {}
           /\ IF ~ch_destroyed
              THEN /\ waiters' = Append(rejected, NewWaiter(<<CHANNEL_CLOSE_OK>>, "close"))
                   /\ ticks' = Append(ticks, [type |-> "register", arg |-> Len(waiters) + 1])
              ELSE /\ waiters' = rejected
                   /\ UNCHANGED ticks
           /\ exited' = (\E w \in hit : waiters[w].kind = "close")
           /\ rejected_with' = IF hit # {} THEN RejectError(error) ELSE rejected_with
    /\ request_callbacks' = [m \in Methods |-> <<>>]
    /\ ch_destroyed' = TRUE
    /\ channels' = [k \in DOMAIN channels \ {ThisChannel} |-> channels[k]]
    /\ UNCHANGED <<now, routed>>
    /\ UNCHANGED <<opened, blocked, destroyed, open_calls, open_result, channel_max>>
    /\ UNCHANGED notConnChan

\* a millisecond passes
Clock ==
    /\ ~exited
    /\ now < MaxTime
    /\ now' = now + 1
    /\ UNCHANGED <<request_callbacks, waiters, ticks, ch_destroyed, routed, exited,
                   rejected_with>>
    /\ UNCHANGED notChan

Errors == {"none", "soft_error"}

ChanIdle ==
    /\ request_callbacks = [m \in Methods |-> <<>>]
    /\ waiters = <<>>
    /\ ticks = <<>>
    /\ ch_destroyed = FALSE
    /\ now = 0
    /\ routed = NoRoute
    /\ exited = FALSE
    /\ rejected_with = "none"

ChanNext ==
    \/ \E r \in ReplyLists : CallApi(r)
    \/ RegisterTick
    \/ \E w \in 1..(MaxCalls + 1) : SendFail(w)
    \/ \E m \in Methods : RecvMethod(m)
    \/ MethodTick
    \/ \E e \in Errors : Destroy(e)
    \/ Clock

(***************************************************************************)
(* DecodeStream: the frame demuxer.  Bytes are numbers 0..255; offsets are  *)
(* those of the code (from 0), so the byte at offset k is buffer[k + 1].    *)
(***************************************************************************)
EMPTY_FRAME_SIZE == 8
FRAME_END == 206
FRAME_METHOD == 1
FRAME_HEADER == 2
FRAME_BODY == 3
FRAME_HEARTBEAT == 8
BASIC_PROPERTIES_CLASS == 60

\* readUInt16BE / readUInt32BE at an offset
U16(b, off) == b[off + 1] * 256 + b[off + 2]
U32(b, off) == ((b[off + 1] * 256 + b[off + 2]) * 256 + b[off + 3]) * 256 + b[off + 4]

\* writeUInt32BE: the four bytes of a number
Bytes32(n) == <<(n \div 16777216) % 256, (n \div 65536) % 256, (n \div 256) % 256, n % 256>>

\* DECODERS: the number of argument bytes the decoder of a method id reads;
\* -1 when there is none.  The frames of the model carry methods without
\* arguments only.
DecoderArgs(method_id) == IF method_id = CHANNEL_CLOSE_OK THEN 0 ELSE -1

\* BufferWriter.framestart + payload + frame end, as the broker writes a frame
Frame(type, channel, payload) ==
    <<type, channel \div 256, channel % 256>> \o Bytes32(Len(payload)) \o payload \o <<FRAME_END>>

\* the frames the broker sends
BrokerFrames ==
    { Frame(FRAME_HEARTBEAT, 0, <<>>),
      Frame(FRAME_BODY, 1, <<7>>),
      Frame(FRAME_METHOD, 1, Bytes32(CHANNEL_CLOSE_OK)) }

\* a frame as the broker must not write it: the frame end is not 0xCE
BadEnd(frame) == SubSeq(frame, 1, Len(frame) - 1) \o <<0>>

\* frames the demuxer must refuse: a wrong frame end, an unknown frame type,
\* a channel that is not open, a method id without a decoder
MalformedFrames ==
    { BadEnd(Frame(FRAME_HEARTBEAT, 0, <<>>)),
      Frame(4, 0, <<>>),
      Frame(FRAME_BODY, 2, <<7>>),
      Frame(FRAME_METHOD, 1, Bytes32(1)) }

\* lines 270-313: one complete frame whose payload starts at offset off.
\* off: the reader's offset afterwards; item: what is dispatched; error: what
\* is thrown; destroy: the error the handler destroys the connection with
DispatchFrame(buffer, type, channel, size, off) ==
    LET none == [off |-> off, item |-> <<>>, error |-> "none", destroy |-> "none"]
    IN  IF type = FRAME_METHOD
        THEN IF off + 4 > Len(buffer)
             THEN [none EXCEPT !.error = "range_error"]
             ELSE LET method_id == U32(buffer, off)
                  IN  IF DecoderArgs(method_id) < 0
                      THEN [none EXCEPT !.error = "frame_error"]
                      ELSE [none EXCEPT !.off = off + 4 + DecoderArgs(method_id),
                                        !.item = <<[type |-> "method", channel |-> channel,
                                                    data |-> <<method_id>>]>>]
        ELSE IF type = FRAME_BODY
        THEN [none EXCEPT !.off = off + size,
                          !.item = <<[type |-> "body", channel |-> channel,
                                      data |-> SubSeq(buffer, off + 1, off + size)]>>,
                          \* Connection.handle_body
                          !.destroy = IF channel = 0 THEN "unexpected_frame" ELSE "none"]
        ELSE IF type = FRAME_HEADER
        THEN \* class id, weight, body size, property flags; only headers
             \* without properties are decoded by the model
             IF off + 2 > Len(buffer) THEN [none EXCEPT !.error = "range_error"]
             ELSE IF U16(buffer, off) # BASIC_PROPERTIES_CLASS
             THEN [none EXCEPT !.error = "frame_error"]
             ELSE IF off + 14 > Len(buffer) THEN [none EXCEPT !.error = "range_error"]
             ELSE IF U16(buffer, off + 12) # 0 THEN [none EXCEPT !.error = "frame_error"]
             ELSE [none EXCEPT !.off = off + 14,
                               !.item = <<[type |-> "header", channel |-> channel,
                                           data |-> SubSeq(buffer, off + 5, off + 12)]>>,
                               \* Connection.handle_header
                               !.destroy = IF channel = 0 THEN "unexpected_frame" ELSE "none"]
        ELSE IF type = FRAME_HEARTBEAT
        THEN [none EXCEPT !.item = <<[type |-> "heartbeat", channel |-> channel,
                                      data |-> <<>>]>>,
                          \* ChannelChildAbstract.handle_heartbeat
                          !.destroy = IF channel # 0 THEN "unexpected_frame" ELSE "none"]
        ELSE [none EXCEPT !.error = "frame_error"]

RECURSIVE DecodeFrames(_, _, _, _)
\* _decode from the frame start at offset start: the frames dispatched (after
\* out), the cache it leaves, the error it throws
DecodeFrames(buffer, start, out, destroy) ==
    LET type    == buffer[start + 1]
        channel == U16(buffer, start + 1)
        size    == U32(buffer, start + 3)
        off     == start + 7
        res     == [out |-> out, cache |-> <<>>, error |-> "none", destroy |-> destroy]
    IN  IF size + 1 + off > Len(buffer)
        THEN \* the while loop ends; line 329
             [res EXCEPT !.cache = IF Len(buffer) = off
                                   THEN SubSeq(buffer, off + 1, Len(buffer)) ELSE <<>>]
        ELSE IF buffer[size + off + 1] # FRAME_END
        THEN [res EXCEPT !.error = "invalid_frame_end"]
        ELSE IF channel # 0 /\ (channel \notin DOMAIN channels \/ destroy # "none")
        THEN [res EXCEPT !.error = "unknown_channel"]
        ELSE LET d == DispatchFrame(buffer, type, channel, size, off)
                 after == d.off + 1
                 unread == Len(buffer) - after
                 destroy2 == IF destroy # "none" THEN destroy ELSE d.destroy
             IN  IF d.error # "none"
                 THEN [res EXCEPT !.error = d.error]
                 ELSE IF unread < EMPTY_FRAME_SIZE
                 THEN [res EXCEPT !.out = out \o d.item, !.destroy = destroy2,
                                  !.cache = IF unread > 0
                                            THEN SubSeq(buffer, after + 1, Len(buffer))
                                            ELSE <<>>]
                 ELSE DecodeFrames(buffer, after, out \o d.item, destroy2)

\* _writevAsync on a decoder in state (mode, cache) with the chunk(s) given:
\* the new mode and cache, the frames dispatched, the error that ends the stream
Writev(mode, cache, chunk) ==
    LET buffer == cache \o chunk
    IN  IF Len(buffer) < EMPTY_FRAME_SIZE
        THEN [mode |-> mode, cache |-> buffer, out |-> <<>>, error |-> "none"]
        ELSE IF mode = "_init" /\ Len(buffer) = 8
        THEN [mode |-> mode, cache |-> <<>>, out |-> <<>>, error |-> "not_implemented"]
        ELSE LET r == DecodeFrames(buffer, 0, <<>>, "none")
             IN  [mode |-> "_decode", cache |-> r.cache, out |-> r.out,
                  error |-> IF r.error # "none" THEN r.error ELSE r.destroy]

\* the broker writes one more frame
BrokerSend(frame) ==
    /\ dec_error = "none"
    /\ Len(dec_all) + Len(frame) <= MaxFrames * 12
    /\ dec_wire' = dec_wire \o frame
    /\ dec_all' = dec_all \o frame
    /\ UNCHANGED <<dec_cache, dec_mode, dec_out, dec_error>>
    /\ UNCHANGED notDec

\* the pipeline callback never destroys the connection
PipelineDestroysNever(error) == FALSE

\* pipeline(socket, DecodeStream, error => ...): an error of the decoder
\* reaches the callback, which calls Connection.destroy(error)
PipelineDestroys(error) == error # "none"

\* the socket delivers the next n bytes: DecodeStream._writevAsync.  An error
\* thrown by the decoder ends the pipeline, whose callback (lines 428-433)
\* calls Connection.destroy(error) unless a handler has destroyed the
\* connection already: every channel is destroyed and deleted from `channels`
SocketChunk(n) ==
    /\ dec_error = "none"
    /\ n \in 1..Len(dec_wire)
    /\ LET r == Writev(dec_mode, dec_cache, SubSeq(dec_wire, 1, n))
       IN  /\ dec_mode' = r.mode
           /\ dec_cache' = r.cache
           /\ dec_out' = dec_out \o r.out
           /\ dec_error' = r.error
           /\ destroyed' = (destroyed \/ PipelineDestroys(r.error))
           /\ channels' = IF PipelineDestroys(r.error) THEN <<>> ELSE channels
    /\ dec_wire' = SubSeq(dec_wire, n + 1, Len(dec_wire))
    /\ UNCHANGED dec_all
    /\ UNCHANGED <<opened, blocked, open_calls, open_result, channel_max>>
    /\ UNCHANGED notConnDec

DecIdle ==
    /\ dec_wire = <<>>
    /\ dec_all = <<>>
    /\ dec_cache = <<>>
    /\ dec_mode = "_init"
    /\ dec_out = <<>>
    /\ dec_error = "none"

DecNext ==
    \/ \E f \in BrokerFrames \cup MalformedFrames : BrokerSend(f)
    \/ \E n \in 1..(MaxFrames * 12) : SocketChunk(n)

(***************************************************************************)
(* ConsumeStream: the content assembly of a consume channel.  The chunks    *)
(* are those ChannelConsume pushes into _input, in the order of the frames. *)
(***************************************************************************)
RECURSIVE Flatten(_)
\* Buffer.concat
Flatten(seqs) == IF seqs = <<>> THEN <<>> ELSE Head(seqs) \o Flatten(Tail(seqs))

\* the payloads of the body frames
BodyFrames == UNION { [1..n -> {1, 2}] : n \in 0..MaxFrameLen }

NoChunk == [type |-> "none", before |-> "none", threw |-> FALSE, wait_before |-> 0]

\* what a chunk of the given type did in the given state
Did(type, threw) ==
    [type |-> type, before |-> cs_current, threw |-> threw, wait_before |-> cs_wait_size]

\* the pipeline callback of subscribe, on the error _writeAsync threw:
\* connection.destroy(error) destroys the channel with it
Throw(type) ==
    /\ cs_error' = "unexpected_frame"
    /\ cs_destroyed' = "unexpected_frame"
    /\ cs_last' = Did(type, TRUE)

\* (mutant) flush_message leaves _wait_size as it is
FlushWaitSizeKept(wait) == wait

\* lines 233-234: _wait_size after flush_message
FlushWaitSize(wait) == 0

\* (mutant) the frame is pushed before the size is compared
BodyPushedPushFirst(body, frame, wait) == body \o frame

\* lines 299-308: the body readable after a body frame, given _wait_size
BodyPushed(body, frame, wait) ==
    IF wait - Len(frame) < 0 THEN body ELSE body \o frame

\* _writeAsync, chunk.type === 'deliver'
WriteDeliver ==
    /\ cs_error = "none"
    /\ cs_delivers < MaxMsgs
    /\ cs_delivers' = cs_delivers + 1
    /\ IF cs_current # "none"
       THEN /\ Throw("deliver")
            /\ UNCHANGED <<cs_current, cs_wait_size, cs_messages>>
       ELSE /\ cs_current' = "deliver"
            /\ cs_last' = Did("deliver", FALSE)
            /\ UNCHANGED <<cs_wait_size, cs_messages, cs_error, cs_destroyed>>
    /\ UNCHANGED notCs

\* _writeAsync, chunk.type === 'header'
WriteHeader(body_size) ==
    /\ cs_error = "none"
    /\ IF cs_current # "deliver"
       THEN /\ Throw("header")
            /\ UNCHANGED <<cs_current, cs_wait_size, cs_messages>>
       ELSE /\ cs_last' = Did("header", FALSE)
            /\ UNCHANGED <<cs_error, cs_destroyed>>
            /\ IF body_size # 0
               THEN /\ cs_wait_size' = body_size
                    /\ cs_current' = "body"
                    /\ cs_messages' = Append(cs_messages,
                            [body_size |-> body_size, has_body |-> TRUE, body |-> <<>>,
                             ended |-> FALSE, wire |-> <<>>])
               ELSE \* flush_message(true)
                    /\ cs_messages' = Append(cs_messages,
                            [body_size |-> 0, has_body |-> FALSE, body |-> <<>>,
                             ended |-> FALSE, wire |-> <<>>])
                    /\ cs_current' = "none"
                    /\ cs_wait_size' = FlushWaitSize(cs_wait_size)
    /\ UNCHANGED cs_delivers
    /\ UNCHANGED notCs

\* _writeAsync, chunk.type === 'body'.  wire: the non-empty body frames that
\* arrived for the message, in wire order
WriteBody(frame) ==
    /\ cs_error = "none"
    /\ IF cs_current # "body"
       THEN /\ Throw("body")
            /\ UNCHANGED <<cs_current, cs_wait_size, cs_messages>>
       ELSE IF Len(frame) = 0
       THEN /\ cs_last' = Did("body", FALSE)
            /\ UNCHANGED <<cs_current, cs_wait_size, cs_messages, cs_error, cs_destroyed>>
       ELSE LET k == Len(cs_messages)
                m == cs_messages[k]
                wait_size == cs_wait_size - Len(frame)
                pushed == [m EXCEPT !.body = BodyPushed(m.body, frame, cs_wait_size),
                                    !.wire = Append(m.wire, frame)]
            IN  IF wait_size < 0
                THEN /\ Throw("body")
                     /\ cs_messages' = [cs_messages EXCEPT ![k] = pushed]
                     /\ UNCHANGED <<cs_current, cs_wait_size>>
                ELSE /\ cs_last' = Did("body", FALSE)
                     /\ UNCHANGED <<cs_error, cs_destroyed>>
                     /\ IF wait_size = 0
                        THEN \* flush_message(false)
                             /\ cs_messages' = [cs_messages EXCEPT ![k] = [pushed EXCEPT !.ended = TRUE]]
                             /\ cs_current' = "none"
                             /\ cs_wait_size' = FlushWaitSize(cs_wait_size)
                        ELSE /\ cs_messages' = [cs_messages EXCEPT ![k] = pushed]
                             /\ cs_wait_size' = wait_size
                             /\ UNCHANGED cs_current
    /\ UNCHANGED cs_delivers
    /\ UNCHANGED notCs

CsIdle ==
    /\ cs_current = "none"
    /\ cs_wait_size = 0
    /\ cs_messages = <<>>
    /\ cs_delivers = 0
    /\ cs_last = NoChunk
    /\ cs_error = "none"
    /\ cs_destroyed = "none"

CsNext ==
    \/ WriteDeliver
    \/ \E n \in 0..MaxBody : WriteHeader(n)
    \/ \E f \in BodyFrames : WriteBody(f)

(***************************************************************************)
(* PublishStream: a Writable whose _writeAsync publishes one message and    *)
(* settles when call_api([basic_return, basic_ack]) does.  The body of a    *)
(* message of L bytes is <<1, ..., L>>.                                     *)
(***************************************************************************)
\* the first n bytes of a body after the first start bytes
BodyBytes(start, n) == [i \in 1..n |-> start + i]

RECURSIVE Slices(_, _)
\* the chunks of the given lengths a readable yields
Slices(lens, start) ==
    IF lens = <<>> THEN <<>>
    ELSE <<BodyBytes(start, Head(lens))>> \o Slices(Tail(lens), start + Head(lens))

RECURSIVE SumSeq(_)
SumSeq(ns) == IF ns = <<>> THEN 0 ELSE Head(ns) + SumSeq(Tail(ns))

\* the messages an application writes: properties absent, {} or set; no body,
\* a Buffer (lens: its length, <<>> for an empty one) or a Readable yielding
\* chunks of the lengths lens with body_size their sum
PublishInputs ==
    { [props |-> p, kind |-> b[1], lens |-> b[2]] :
        p \in {"absent", "empty", "set"},
        b \in { <<"absent", <<>>>>,
                <<"buffer", <<>>>>, <<"buffer", <<1>>>>, <<"buffer", <<3>>>>,
                <<"readable", <<1, 2>>>>, <<"readable", <<3>>>> } }

\* _publish_chunk: the path taken, body_size and the chunks of the readable
PublishChunk(input) ==
    IF input.kind = "readable"
    THEN [path |-> "readable", body_size |-> SumSeq(input.lens),
          chunks |-> Slices(input.lens, 0)]
    ELSE IF input.kind = "buffer" /\ input.lens # <<>>
    THEN \* body.push(chunk.body): one chunk, body_size = chunk.body.length
         [path |-> "readable", body_size |-> input.lens[1],
          chunks |-> <<BodyBytes(0, input.lens[1])>>]
    ELSE [path |-> "header_only", body_size |-> 0, chunks |-> <<>>]

\* API.basic_publish: the flag byte of mandatory and immediate
PublishFlag(mandatory, immediate) ==
    (IF mandatory THEN 1 ELSE 0) + (IF immediate THEN 2 ELSE 0)

PublishFrame(i) ==
    [msg |-> i, type |-> "publish", flag |-> PublishFlag(TRUE, FALSE),
     props |-> "none", body_size |-> 0, payload |-> <<>>]

\* API.publish_header(socket, channel, chunk.properties || {}, chunk.body_size || 0):
\* the frames it writes
HeaderFrames(i, props, body_size) ==
    IF props \in {"absent", "empty"}
    THEN \* if (!Object.keys(value).length) return;
         <<>>
    ELSE <<[msg |-> i, type |-> "header", flag |-> 0,
            props |-> props, body_size |-> body_size, payload |-> <<>>]>>

\* BodyStream._writeAsync: writeBodyOne
BodyFrame(i, chunk) ==
    [msg |-> i, type |-> "body", flag |-> 0,
     props |-> "none", body_size |-> 0, payload |-> chunk]

\* the frames of message i on the wire
FramesOf(i) == SelectSeq(pb_wire, LAMBDA f : f.msg = i)

RECURSIVE Payloads(_)
Payloads(fs) == IF fs = <<>> THEN <<>> ELSE Head(fs).payload \o Payloads(Tail(fs))

\* the broker has the whole content of message i: method, header and
\* body_size bytes of body
ContentComplete(i) ==
    LET fs == FramesOf(i)
    IN  /\ Len(fs) >= 2
        /\ fs[1].type = "publish"
        /\ fs[2].type = "header"
        /\ Len(Payloads(fs)) = fs[2].body_size

Unsettled == {i \in DOMAIN pb_msgs : pb_msgs[i].stage = "queued" \/ i = pb_writing}

\* the application writes a message: Writable.write
PublishWrite(input) ==
    /\ ~pb_exited
    /\ Len(pb_msgs) < MaxPub
    /\ LET c == PublishChunk(input)
       IN  pb_msgs' = Append(pb_msgs,
                [props |-> input.props, path |-> c.path, body_size |-> c.body_size,
                 body |-> Flatten(c.chunks), chunks |-> c.chunks, stage |-> "queued",
                 waiting |-> FALSE, outcome |-> "none", reply_tag |-> 0, calls |-> 0])
    /\ pb_write_ok' = (Cardinality(Unsettled) + 1 < pb_hwm)
    /\ UNCHANGED <<pb_init, pb_hwm, pb_writing, pb_inited, pb_wire, pb_net, pb_answers, pb_recv, pb_exited>>
    /\ UNCHANGED notPb

\* _publish is _init for every message
PublishViaInit(inited) == "init"

\* this._publish: _init until it has replaced itself with _publish_chunk,
\* whose call_api waits for its nextTick
PublishVia(inited) == IF inited THEN "tick" ELSE "init"

\* the Writable calls _writeAsync for the next message when the last settled
StartWrite ==
    /\ ~pb_exited
    /\ pb_writing = 0
    /\ \E i \in DOMAIN pb_msgs :
        /\ pb_msgs[i].stage = "queued"
        /\ \A j \in 1..(i - 1) : pb_msgs[j].stage # "queued"
        /\ pb_writing' = i
        /\ pb_msgs' = [pb_msgs EXCEPT ![i].stage = PublishVia(pb_inited)]
    /\ UNCHANGED <<pb_init, pb_hwm, pb_inited, pb_write_ok, pb_wire, pb_net, pb_answers, pb_recv, pb_exited>>
    /\ UNCHANGED notPb

\* _init on a connection that is opened and has a free channel id: the
\* nextTick callback of channel_open creates the ChannelPublish, and the
\* call_api of channel.open waits for its own nextTick
InitChannelTick ==
    /\ ~pb_exited
    /\ pb_writing # 0
    /\ pb_msgs[pb_writing].stage = "init"
    /\ pb_msgs' = [pb_msgs EXCEPT ![pb_writing].stage = "open_tick"]
    /\ UNCHANGED <<pb_init, pb_hwm, pb_writing, pb_inited, pb_write_ok, pb_wire, pb_net, pb_answers, pb_recv, pb_exited>>
    /\ UNCHANGED notPb

\* the nextTick callback of that call_api: the waiter for channel.open_ok is
\* registered and API.channel_open writes its frame
InitOpenTick ==
    /\ ~pb_exited
    /\ pb_writing # 0
    /\ pb_msgs[pb_writing].stage = "open_tick"
    /\ pb_init' = Append(pb_init, "channel_open")
    /\ pb_msgs' = [pb_msgs EXCEPT ![pb_writing].stage = "open_wait"]
    /\ UNCHANGED <<pb_hwm, pb_writing, pb_inited, pb_write_ok, pb_wire, pb_net, pb_answers, pb_recv, pb_exited>>
    /\ UNCHANGED notPb

\* channel.open_ok arrives: channel_open returns, set_stream, and confirm()
\* calls call_api([confirm_select_ok], ..)
InitOpenOk ==
    /\ ~pb_exited
    /\ pb_writing # 0
    /\ pb_msgs[pb_writing].stage = "open_wait"
    /\ pb_init' = Append(pb_init, "channel_open_ok")
    /\ pb_msgs' = [pb_msgs EXCEPT ![pb_writing].stage = "confirm_tick"]
    /\ UNCHANGED <<pb_hwm, pb_writing, pb_inited, pb_write_ok, pb_wire, pb_net, pb_answers, pb_recv, pb_exited>>
    /\ UNCHANGED notPb

\* the nextTick callback of confirm(): API.confirm_select({nowait: false})
InitConfirmTick ==
    /\ ~pb_exited
    /\ pb_writing # 0
    /\ pb_msgs[pb_writing].stage = "confirm_tick"
    /\ pb_init' = Append(pb_init, "confirm_select")
    /\ pb_msgs' = [pb_msgs EXCEPT ![pb_writing].stage = "confirm_wait"]
    /\ UNCHANGED <<pb_hwm, pb_writing, pb_inited, pb_write_ok, pb_wire, pb_net, pb_answers, pb_recv, pb_exited>>
    /\ UNCHANGED notPb

\* confirm.select_ok arrives: _publish becomes _publish_chunk, which calls
\* call_api for the message
InitDone ==
    /\ ~pb_exited
    /\ pb_writing # 0
    /\ pb_msgs[pb_writing].stage = "confirm_wait"
    /\ pb_init' = Append(pb_init, "confirm_select_ok")
    /\ pb_inited' = TRUE
    /\ pb_msgs' = [pb_msgs EXCEPT ![pb_writing].stage = "tick"]
    /\ UNCHANGED <<pb_hwm, pb_writing, pb_write_ok, pb_wire, pb_net, pb_answers, pb_recv, pb_exited>>
    /\ UNCHANGED notPb

\* the process.nextTick of call_api: the waiter is registered, send() starts
\* and API.basic_publish writes its frame
PublishTick(i) ==
    /\ ~pb_exited
    /\ pb_msgs[i].stage = "tick"
    /\ pb_msgs' = [pb_msgs EXCEPT ![i].stage = "header", ![i].waiting = TRUE]
    /\ pb_wire' = Append(pb_wire, PublishFrame(i))
    /\ UNCHANGED <<pb_init, pb_hwm, pb_writing, pb_inited, pb_write_ok, pb_net, pb_answers, pb_recv, pb_exited>>
    /\ UNCHANGED notPb

\* send() goes on after basic_publish: API.publish_header
PublishHeader(i) ==
    /\ ~pb_exited
    /\ pb_msgs[i].stage = "header"
    /\ pb_wire' = pb_wire \o HeaderFrames(i, pb_msgs[i].props, pb_msgs[i].body_size)
    /\ pb_msgs' = [pb_msgs EXCEPT ![i].stage =
                        IF pb_msgs[i].path = "readable" THEN "body" ELSE "sent"]
    /\ UNCHANGED <<pb_init, pb_hwm, pb_writing, pb_inited, pb_write_ok, pb_net, pb_answers, pb_recv, pb_exited>>
    /\ UNCHANGED notPb

\* the pipeline of _publish_readable hands the next chunk to BodyStream
PublishBody(i) ==
    /\ ~pb_exited
    /\ pb_msgs[i].stage = "body"
    /\ pb_wire' = Append(pb_wire, BodyFrame(i, Head(pb_msgs[i].chunks)))
    /\ pb_msgs' = [pb_msgs EXCEPT ![i].chunks = Tail(@),
                                  ![i].stage = IF Len(pb_msgs[i].chunks) = 1
                                               THEN "sent" ELSE "body"]
    /\ UNCHANGED <<pb_init, pb_hwm, pb_writing, pb_inited, pb_write_ok, pb_net, pb_answers, pb_recv, pb_exited>>
    /\ UNCHANGED notPb

\* the broker confirms the next message it has the whole content of: with
\* basic.ack, or, when it cannot route it, with basic.return and then basic.ack
BrokerAnswer(kind) ==
    /\ ~pb_exited
    /\ LET t == Len(pb_answers) + 1
       IN  /\ t \in DOMAIN pb_msgs
           /\ ContentComplete(t)
           /\ pb_answers' = Append(pb_answers, kind)
           /\ pb_net' = pb_net \o
                (IF kind = BASIC_RETURN
                 THEN <<[method_id |-> BASIC_RETURN, tag |-> t], [method_id |-> BASIC_ACK, tag |-> t]>>
                 ELSE <<[method_id |-> BASIC_ACK, tag |-> t]>>)
    /\ UNCHANGED <<pb_init, pb_hwm, pb_msgs, pb_writing, pb_inited, pb_write_ok, pb_wire, pb_recv, pb_exited>>
    /\ UNCHANGED notPb

\* handle_method of the publish channel for the next reply: the waiter
\* registered on its id is resolved and _check_publish_response calls the
\* callback; without a waiter basic_ack has a handler and basic_return is fatal
PublishHandleMethod ==
    /\ ~pb_exited
    /\ pb_net # <<>>
    /\ LET reply == Head(pb_net)
           waiting == {i \in DOMAIN pb_msgs : pb_msgs[i].waiting}
       IN  /\ pb_recv' = pb_recv \cup {reply.tag}
           /\ IF waiting # {}
              THEN LET i == CHOOSE i \in waiting : \A j \in waiting : i <= j
                   IN  /\ pb_msgs' = [pb_msgs EXCEPT
                                ![i].waiting = FALSE,
                                ![i].outcome = reply.method_id,
                                ![i].reply_tag = reply.tag,
                                ![i].calls = @ + 1]
                       /\ pb_writing' = IF pb_writing = i THEN 0 ELSE pb_writing
                       /\ UNCHANGED pb_exited
              ELSE /\ pb_exited' = (reply.method_id \notin Handlers)
                   /\ UNCHANGED <<pb_msgs, pb_writing>>
    /\ pb_net' = Tail(pb_net)
    /\ UNCHANGED <<pb_init, pb_hwm, pb_inited, pb_write_ok, pb_wire, pb_answers>>
    /\ UNCHANGED notPb

PbIdle ==
    /\ pb_init = <<>>
    /\ pb_msgs = <<>>
    /\ pb_writing = 0
    /\ pb_inited = FALSE
    /\ pb_write_ok = TRUE
    /\ pb_wire = <<>>
    /\ pb_net = <<>>
    /\ pb_answers = <<>>
    /\ pb_recv = {}
    /\ pb_exited = FALSE

PbNext ==
    \/ \E input \in PublishInputs : PublishWrite(input)
    \/ StartWrite
    \/ InitChannelTick
    \/ InitOpenTick
    \/ InitOpenOk
    \/ InitConfirmTick
    \/ InitDone
    \/ \E i \in DOMAIN pb_msgs : PublishTick(i)
    \/ \E i \in DOMAIN pb_msgs : PublishHeader(i)
    \/ \E i \in DOMAIN pb_msgs : PublishBody(i)
    \/ \E kind \in {BASIC_ACK, BASIC_RETURN} : BrokerAnswer(kind)
    \/ PublishHandleMethod

(***************************************************************************)
(* The ack() and nack(requeue) actions of the messages ConsumeStream pushed *)
(* to the reader.  The delivery tag of a message is its number.             *)
(***************************************************************************)
\* (mutant) the action does not look at `called`
AckSendsAlways(called) == TRUE

\* lines 250 and 260: if (called) return;
AckSends(called) == ~called

\* API.basic_ack / API.basic_nack with the arguments of lines 253-267
AckFrame(method, tag, requeue) ==
    [method |-> method, delivery_tag |-> tag, multiple |-> FALSE, requeue |-> requeue]

\* the closure of ack() or nack(requeue) of the message with the given
\* delivery tag: call_api([], send) calls send at once; writeSocket writes only
\* to an open socket
AckResult(method, tag, requeue) ==
    IF AckSends(tag \in cs_called)
    THEN [called |-> cs_called \cup {tag},
          frames |-> IF cs_destroyed = "none"
                     THEN Append(cs_ack_frames, AckFrame(method, tag, requeue))
                     ELSE cs_ack_frames]
    ELSE [called |-> cs_called, frames |-> cs_ack_frames]

\* message.ack()
MessageAck(tag) ==
    /\ tag \in DOMAIN cs_messages
    /\ Len(cs_ack_calls) < MaxAckCalls
    /\ cs_ack_calls' = Append(cs_ack_calls, AckFrame("basic_ack", tag, FALSE))
    /\ cs_called' = AckResult("basic_ack", tag, FALSE).called
    /\ cs_ack_frames' = AckResult("basic_ack", tag, FALSE).frames
    /\ UNCHANGED notAck

\* message.nack(requeue)
MessageNack(tag, requeue) ==
    /\ tag \in DOMAIN cs_messages
    /\ Len(cs_ack_calls) < MaxAckCalls
    /\ cs_ack_calls' = Append(cs_ack_calls, AckFrame("basic_nack", tag, requeue))
    /\ cs_called' = AckResult("basic_nack", tag, requeue).called
    /\ cs_ack_frames' = AckResult("basic_nack", tag, requeue).frames
    /\ UNCHANGED notAck

AckIdle ==
    /\ cs_called = {}
    /\ cs_ack_calls = <<>>
    /\ cs_ack_frames = <<>>

AckNext ==
    \/ WriteDeliver
    \/ \E n \in 0..1 : WriteHeader(n)
    \/ WriteBody(<<1>>)
    \/ \E tag \in 1..MaxMsgs : MessageAck(tag)
    \/ \E tag \in 1..MaxMsgs : \E requeue \in BOOLEAN : MessageNack(tag, requeue)

(***************************************************************************)
(* The heartbeat check of an open connection: start_check_heartbeat and the *)
(* timestamp DecodeStream._writevAsync and handle_heartbeat refresh.        *)
(***************************************************************************)
SECOND == 1000
HB_MOF_DENOMINATOR == 100
HB_MOF_MIN == 50
HB_MOF_MAX == 1000

Max(a, b) == IF a > b THEN a ELSE b

\* getHeartbeatMarginOfError; heartbeat is a multiple of 1000, so the
\* division is exact
getHeartbeatMarginOfError(heartbeat) ==
    Min(Max(heartbeat \div HB_MOF_DENOMINATOR, HB_MOF_MIN), HB_MOF_MAX)

\* max_delay of start_check_heartbeat
MaxDelay(H) == H * SECOND + getHeartbeatMarginOfError(H * SECOND)

\* (mutant) the check never finds the delay too long
ExpiredNever(delay, max_delay) == FALSE

\* line 598: if (delay > max_delay)
Expired(delay, max_delay) == delay > max_delay

\* (mutant) only a heartbeat frame refreshes the timestamp
RefreshesOnHeartbeat(kind) == kind = "heartbeat"

\* line 335: every chunk refreshes Connection.heartbeat, whatever it holds
Refreshes(kind) == TRUE

NotExpired == [reply_code |-> "none", text |-> "none", silence |-> 0]

\* time passes; a timer callback that is due runs at most MaxLate ms late
HbClock ==
    /\ hb_destroyed = NotExpired
    /\ hb_now + ClockStep <= MaxClock
    /\ hb_check_at # -1 => hb_now + ClockStep <= hb_check_at + MaxLate
    /\ hb_now' = hb_now + ClockStep
    /\ UNCHANGED <<hb_H, hb_heartbeat, hb_check_at, hb_checks, hb_last_chunk, hb_seen_hb,
                   hb_destroyed>>
    /\ UNCHANGED notHb

\* the socket delivers a chunk holding frames of the given kind:
\* _writevAsync, and handle_heartbeat for a heartbeat frame
InboundChunk(kind) ==
    /\ hb_destroyed = NotExpired
    /\ hb_heartbeat' = IF Refreshes(kind) THEN hb_now ELSE hb_heartbeat
    /\ hb_last_chunk' = hb_now
    /\ hb_seen_hb' = (hb_seen_hb \/ kind = "heartbeat")
    /\ UNCHANGED <<hb_H, hb_now, hb_check_at, hb_checks, hb_destroyed>>
    /\ UNCHANGED notHb

\* the callback of _interval_ck_hb; destroy clears the interval
CheckHeartbeat ==
    /\ hb_destroyed = NotExpired
    /\ hb_check_at # -1
    /\ hb_now >= hb_check_at
    /\ hb_checks' = hb_checks + 1
    /\ IF Expired(hb_now - hb_heartbeat, MaxDelay(hb_H))
       THEN /\ hb_destroyed' = [reply_code |-> "connection_forced",
                                text |-> "Heartbeat timeout expired",
                                silence |-> hb_now - hb_last_chunk]
            /\ hb_check_at' = -1
       ELSE /\ hb_check_at' = hb_now + HB_MOF_MAX
            /\ UNCHANGED hb_destroyed
    /\ UNCHANGED <<hb_H, hb_now, hb_heartbeat, hb_last_chunk, hb_seen_hb>>
    /\ UNCHANGED notHb

HbIdle ==
    /\ hb_H = 0
    /\ hb_now = 0
    /\ hb_heartbeat = 0
    /\ hb_check_at = -1
    /\ hb_checks = 0
    /\ hb_last_chunk = 0
    /\ hb_seen_hb = FALSE
    /\ hb_destroyed = NotExpired

HbNext ==
    \/ HbClock
    \/ \E kind \in {"heartbeat", "other"} : InboundChunk(kind)
    \/ CheckHeartbeat

ConnInit ==
    /\ channels = <<>>
    /\ opened = FALSE
    /\ blocked = FALSE
    /\ destroyed = FALSE
    /\ open_calls = 0
    /\ open_result = NoOpen
    /\ channel_max = ChannelMax

ConnNext ==
    \/ ConnectionOpened
    \/ ChannelOpenCall
    \/ ChannelOpenTick
    \/ \E c \in 1..ChannelMax : ChannelOpenOk(c)
    \/ \E c \in 1..ChannelMax : ChannelDestroy(c)
    \/ ConnectionBlocked
    \/ ConnectionUnblocked
    \/ ConnectionDestroy

(***************************************************************************)
(* Connection.destroy, ChannelAbstract.destroy, ChannelChildAbstract       *)
(* .destroy, call_close and the handlers of a broker-sent channel.close /  *)
(* connection.close.  Channel 0 is the connection itself.  An error is the *)
(* record of the fields of a CloseErrorBase; NoError is `undefined`.       *)
(***************************************************************************)
REPLY_SUCCESS == 200
CONNECTION_FORCED == 320
NOT_FOUND == 404

CloseErrorBase(method_id, reply_code, reply_text) ==
    [method_id |-> method_id, reply_code |-> reply_code, reply_text |-> reply_text]

NoError == CloseErrorBase(0, 0, "undefined")

\* the value of cd_error for an object destroy was never called on
NotDestroyed == CloseErrorBase(0, 0, "not destroyed")

\* the arguments of a method that has none of its own
NoArgs == [method_id |-> 0, reply_code |-> 0, reply_text |-> ""]

\* new HardError(0, 'connection_forced', 'Channel or connection closed')
HardErrorClosed == CloseErrorBase(0, CONNECTION_FORCED, "Channel or connection closed")

\* errors Connection.destroy is called with by the library or by the user
CdErrors == {NoError, CloseErrorBase(0, CONNECTION_FORCED, "Heartbeat timeout expired")}

\* errors the destroy of one child is called with (a SoftError of a subclass)
CdChildErrors == {CloseErrorBase(3932220, 313, "Invalid consumer tag")}

\* (reply_code, reply_text, method_id) of a close method sent by the broker:
\* a soft error closes a channel, a hard error closes the connection
BrokerCloseArgs(ch) ==
    IF ch # 0
    THEN {[reply_code |-> NOT_FOUND, reply_text |-> "NOT_FOUND - no queue", method_id |-> 3276810]}
    ELSE {[reply_code |-> CONNECTION_FORCED, reply_text |-> "CONNECTION_FORCED - shutdown",
           method_id |-> 0]}

\* a plausible slip: the branch for no error is missing
ErrorToCloseOfError(error) ==
    [method_id |-> error.method_id, reply_code |-> error.reply_code,
     reply_text |-> error.reply_text]

\* ErrorToClose: the arguments of the close method sent for an error
ErrorToClose(error) ==
    IF error # NoError
    THEN [method_id |-> error.method_id, reply_code |-> error.reply_code,
          reply_text |-> error.reply_text]
    ELSE [method_id |-> 0, reply_code |-> REPLY_SUCCESS, reply_text |-> "buy!"]

\* reject_error of ChannelAbstract.destroy
CdRejectError(error) == IF error # NoError THEN error ELSE HardErrorClosed

\* the error built from the broker's close arguments: method_id is dropped
CloseErrorNoMethod(args) == CloseErrorBase(0, args.reply_code, args.reply_text)

\* new CloseErrorBase(args.method_id, args.reply_code, args.reply_text)
CloseError(args) == CloseErrorBase(args.method_id, args.reply_code, args.reply_text)

\* the loop over channels.keys() stops after the first key
ChildrenToDestroyFirst(keys) == IF keys = {} THEN {} ELSE {CHOOSE k \in keys : \A o \in keys : k <= o}

\* for (const key of this.channels.keys()): every key is visited
ChildrenToDestroy(keys) == keys

CdWaiter(ch, kind, arg) ==
    [channel |-> ch, kind |-> kind, state |-> "tick", arg |-> arg, error |-> NoError]

CdFrame(ch, method, args) == [channel |-> ch, method |-> method, args |-> args]

CdStep(step, ch) == [step |-> step, channel |-> ch]

\* isSocketOpened / writeSocket: a frame is written only to an open socket
WriteSocket(wire, socket, frame) == IF socket = "open" THEN Append(wire, frame) ELSE wire

(***************************************************************************)
(* ChannelAbstract.destroy(error) on object ch, as a function of the part  *)
(* of the state it touches: st = [waiters, destroyed, error, closed,        *)
(* channels, exited, log].  call_close(error) is started when neither the  *)
(* socket nor the object is destroyed, and goes on when the object is not  *)
(* closed: its call_api defers the registration, so the                    *)
(* new waiter is in state "tick".  Every registered callback of the object *)
(* is called with reject_error.  A rejected call_close waiter makes the    *)
(* catch of line 169 call fatal, which exits the process.  For a child the *)
(* flag is set and the key deleted (724-728); the connection sets its own  *)
(* flag in Connection.destroy.                                             *)
(***************************************************************************)
ChannelDestroyed(st, ch, error, socket) ==
    LET closing == socket # "destroyed" /\ ~st.destroyed[ch] /\ ~st.closed[ch]
        hit(w) == w.channel = ch /\ w.state = "registered"
        rejected == [i \in DOMAIN st.waiters |->
                        IF hit(st.waiters[i])
                        THEN [st.waiters[i] EXCEPT !.state = "rejected",
                                                   !.error = CdRejectError(error)]
                        ELSE st.waiters[i]]
        fatal == \E i \in DOMAIN st.waiters :
                    hit(st.waiters[i]) /\ st.waiters[i].kind = "close"
    IN [waiters |-> IF closing THEN Append(rejected, CdWaiter(ch, "close", error))
                    ELSE rejected,
        destroyed |-> IF ch # 0 THEN [st.destroyed EXCEPT ![ch] = TRUE] ELSE st.destroyed,
        error |-> [st.error EXCEPT ![ch] = error],
        closed |-> st.closed,
        channels |-> st.channels \ {ch},
        exited |-> st.exited \/ fatal,
        log |-> Append(st.log, CdStep(IF ch = 0 THEN "super" ELSE "channel", ch))]

RECURSIVE ChildrenDestroyed(_, _, _, _)
\* lines 616-620: channel.destroy(error); channels.delete(key) for each key
ChildrenDestroyed(st, keys, error, socket) ==
    IF keys = <<>> THEN st
    ELSE ChildrenDestroyed(ChannelDestroyed(st, Head(keys), error, socket),
                           Tail(keys), error, socket)

CdState ==
    [waiters |-> cd_waiters, destroyed |-> cd_destroyed, error |-> cd_error,
     closed |-> cd_closed, channels |-> cd_channels, exited |-> cd_exited, log |-> <<>>]

\* Connection.destroy(error), lines 605-626
ConnectionDestroyed(error) ==
    LET timers == [CdState EXCEPT !.log = <<CdStep("timers", 0)>>]
        kids == ChildrenDestroyed(timers, SeqOfSet(ChildrenToDestroy(cd_channels)),
                                  error, cd_socket)
        super == ChannelDestroyed(kids, 0, error, cd_socket)
        flag == [super EXCEPT !.destroyed[0] = TRUE,
                              !.log = Append(super.log, CdStep("destroyed", 0))]
    IN IF cd_socket # "destroyed"
       THEN [flag EXCEPT !.log = Append(flag.log, CdStep("socket", 0))]
       ELSE flag

\* process.nextTick callbacks run before any socket or timer event is handled:
\* an event from the broker finds no deferred registration pending
CdNoTicks == \A i \in DOMAIN cd_waiters : cd_waiters[i].state # "tick"

CdCount(kind) == Cardinality({i \in DOMAIN cd_waiters : cd_waiters[i].kind = kind})

\* a user calls call_api with a non-empty reply list on the connection or a child
CdCallApi(ch) ==
    /\ ~cd_exited
    /\ CdCount("api") < MaxCdCalls
    /\ cd_waiters' = Append(cd_waiters, CdWaiter(ch, "api", NoError))
    /\ UNCHANGED <<cd_channels, cd_destroyed, cd_error, cd_timers, cd_socket, cd_wire,
                   cd_log, cd_closing, cd_exited, cd_closed>>
    /\ UNCHANGED notCd

\* the oldest deferred registration runs: callbacks.set(id, callback); send()
CdRegisterTick ==
    /\ ~cd_exited
    /\ \E i \in DOMAIN cd_waiters :
        /\ cd_waiters[i].state = "tick"
        /\ \A j \in 1..(i - 1) : cd_waiters[j].state # "tick"
        /\ cd_waiters' = [cd_waiters EXCEPT ![i].state = "registered"]
        /\ LET w == cd_waiters[i]
               frame == IF w.kind = "api" THEN CdFrame(w.channel, "request", NoArgs)
                        ELSE CdFrame(w.channel,
                                     IF w.channel = 0 THEN "connection_close" ELSE "channel_close",
                                     ErrorToClose(w.arg))
           IN cd_wire' = WriteSocket(cd_wire, cd_socket, frame)
    /\ UNCHANGED <<cd_channels, cd_destroyed, cd_error, cd_timers, cd_socket, cd_log,
                   cd_closing, cd_exited, cd_closed>>
    /\ UNCHANGED notCd

\* the broker's reply to the oldest registered request of a channel that is
\* not destroyed (handle_method drops methods of a destroyed channel)
CdReply(i) ==
    /\ ~cd_exited
    /\ cd_socket = "open"
    /\ CdNoTicks
    /\ i \in DOMAIN cd_waiters
    /\ cd_waiters[i].state = "registered"
    /\ cd_waiters[i].kind = "api"
    /\ ~cd_destroyed[cd_waiters[i].channel]
    /\ \A j \in 1..(i - 1) :
          ~(cd_waiters[j].channel = cd_waiters[i].channel /\ cd_waiters[j].kind = "api"
            /\ cd_waiters[j].state = "registered")
    /\ cd_waiters' = [cd_waiters EXCEPT ![i].state = "resolved"]
    /\ UNCHANGED <<cd_channels, cd_destroyed, cd_error, cd_timers, cd_socket, cd_wire,
                   cd_log, cd_closing, cd_exited, cd_closed>>
    /\ UNCHANGED notCd

\* a subclass (on a soft error) or the user calls destroy(error) on a child
\* that is not destroyed yet: ChannelChildAbstract.destroy, lines 724-728
CdChildDestroy(ch, error) ==
    /\ ~cd_exited
    /\ ~cd_destroyed[ch]
    /\ LET st == ChannelDestroyed(CdState, ch, error, cd_socket)
       IN /\ cd_waiters' = st.waiters
          /\ cd_destroyed' = st.destroyed
          /\ cd_error' = st.error
          /\ cd_channels' = st.channels
          /\ cd_exited' = st.exited
    /\ UNCHANGED <<cd_timers, cd_socket, cd_wire, cd_log, cd_closing, cd_closed>>
    /\ UNCHANGED notCd

\* Connection.destroy(error) is called on a connection that is not destroyed
\* yet: by the heartbeat check, by the pipeline callback or by the user
CdDestroy(error) ==
    /\ ~cd_exited
    /\ ~cd_destroyed[0]
    /\ LET st == ConnectionDestroyed(error)
       IN /\ cd_waiters' = st.waiters
          /\ cd_destroyed' = st.destroyed
          /\ cd_error' = st.error
          /\ cd_channels' = st.channels
          /\ cd_exited' = st.exited
          /\ cd_log' = st.log
    /\ cd_timers' = {}
    /\ cd_socket' = "destroyed"
    /\ UNCHANGED <<cd_wire, cd_closing, cd_closed>>
    /\ UNCHANGED notCd

\* the broker's channel.close (ch > 0) or connection.close (ch = 0) reaches
\* its handler, which first writes close_ok through call_api([], ...)
CdCloseRecv(ch, args) ==
    /\ ~cd_exited
    /\ cd_socket = "open"
    /\ ~cd_destroyed[ch]
    /\ ch = 0 \/ ch \in cd_channels
    /\ cd_closing = {}
    /\ CdNoTicks
    /\ cd_wire' = WriteSocket(cd_wire, cd_socket,
                     CdFrame(ch, IF ch = 0 THEN "connection_close_ok" ELSE "channel_close_ok",
                             NoArgs))
    /\ cd_closing' = cd_closing \cup {[channel |-> ch, args |-> args]}
    /\ UNCHANGED <<cd_channels, cd_destroyed, cd_error, cd_waiters, cd_timers, cd_socket,
                   cd_log, cd_exited, cd_closed>>
    /\ UNCHANGED notCd

\* the handler continues after its await: this.destroy(new CloseErrorBase(...))
CdCloseDestroy(c) ==
    /\ ~cd_exited
    /\ c \in cd_closing
    /\ CdNoTicks
    /\ cd_closing' = cd_closing \ {c}
    /\ LET error == CloseError(c.args)
           st == IF c.channel = 0 THEN ConnectionDestroyed(error)
                 ELSE ChannelDestroyed(CdState, c.channel, error, cd_socket)
       IN /\ cd_waiters' = st.waiters
          /\ cd_destroyed' = st.destroyed
          /\ cd_error' = st.error
          /\ cd_channels' = st.channels
          /\ cd_exited' = st.exited
          /\ cd_log' = IF c.channel = 0 THEN st.log ELSE cd_log
    /\ cd_timers' = IF c.channel = 0 THEN {} ELSE cd_timers
    /\ cd_socket' = IF c.channel = 0 THEN "destroyed" ELSE cd_socket
    /\ UNCHANGED <<cd_wire, cd_closed>>
    /\ UNCHANGED notCd

CdIdle ==
    /\ cd_channels = {}
    /\ cd_destroyed = [c \in 0..CdChildren |-> FALSE]
    /\ cd_error = [c \in 0..CdChildren |-> NotDestroyed]
    /\ cd_waiters = <<>>
    /\ cd_timers = {}
    /\ cd_socket = "open"
    /\ cd_wire = <<>>
    /\ cd_log = <<>>
    /\ cd_closing = {}
    /\ cd_exited = FALSE
    /\ cd_closed = [c \in 0..CdChildren |-> FALSE]

CdNext ==
    \/ \E ch \in 0..CdChildren : CdCallApi(ch)
    \/ CdRegisterTick
    \/ \E i \in 1..(MaxCdCalls + CdChildren + 1) : CdReply(i)
    \/ \E ch \in 1..CdChildren, error \in CdChildErrors : CdChildDestroy(ch, error)
    \/ \E error \in CdErrors : CdDestroy(error)
    \/ \E ch \in 0..CdChildren : \E args \in BrokerCloseArgs(ch) : CdCloseRecv(ch, args)
    \/ \E c \in cd_closing : CdCloseDestroy(c)


\* new HardError(0, 'channel_error', `Unknown channel`, frame_start) of DecodeStream
CHANNEL_ERROR == 504
UnknownChannel == CloseErrorBase(0, CHANNEL_ERROR, "Unknown channel")

MaxCdCloses == 2

\* the user calls close() on a child: await this.call_close(); this.destroy().
\* call_close returns at once when the object is destroyed or closed, and
\* destroy() follows; otherwise its call_api defers registration and send.
CdClose(ch) ==
    /\ ~cd_exited
    /\ CdCount("user_close") < MaxCdCloses
    /\ IF cd_destroyed[ch] \/ cd_closed[ch]
       THEN LET st == ChannelDestroyed(CdState, ch, NoError, cd_socket)
            IN /\ cd_waiters' = st.waiters
               /\ cd_destroyed' = st.destroyed
               /\ cd_error' = st.error
               /\ cd_channels' = st.channels
               /\ cd_exited' = st.exited
       ELSE /\ cd_waiters' = Append(cd_waiters, CdWaiter(ch, "user_close", NoError))
            /\ UNCHANGED <<cd_destroyed, cd_error, cd_channels, cd_exited>>
    /\ UNCHANGED <<cd_timers, cd_socket, cd_wire, cd_log, cd_closing, cd_closed>>
    /\ UNCHANGED notCd

\* the waiter the broker's next close_ok of a channel answers: the oldest
\* channel.close written for it that has no answer yet
CdAwaitsCloseOk(i) ==
    /\ i \in DOMAIN cd_waiters
    /\ cd_waiters[i].kind \in {"close", "user_close"}
    /\ cd_waiters[i].state \in {"registered", "rejected"}
    /\ \A j \in 1..(i - 1) :
          ~ /\ cd_waiters[j].channel = cd_waiters[i].channel
            /\ cd_waiters[j].kind \in {"close", "user_close"}
            /\ cd_waiters[j].state \in {"registered", "rejected"}

\* DecodeStream._decode: channels.get(frame_start.channel) === undefined
UnknownChannelThrows(ch) == ch # 0 /\ ch \notin cd_channels

\* the broker's channel.close_ok reaches the demuxer.  For a channel that is
\* not in `channels` DecodeStream throws HardError 'Unknown channel' and the
\* pipeline callback destroys the connection.  Otherwise handle_method hands
\* it to the oldest registered callback: call_close sets closed, and close()
\* goes on with destroy().
CdCloseOkRecv(i) ==
    /\ ~cd_exited
    /\ cd_socket = "open"
    /\ CdNoTicks
    /\ CdAwaitsCloseOk(i)
    /\ LET w == cd_waiters[i]
           ch == w.channel
           answered == [cd_waiters EXCEPT ![i].state =
                            IF w.state = "registered" THEN "resolved" ELSE "answered"]
       IN IF UnknownChannelThrows(ch)
          THEN LET st == ConnectionDestroyed(UnknownChannel)
               IN /\ cd_waiters' = [st.waiters EXCEPT ![i].state = "answered"]
                  /\ cd_destroyed' = st.destroyed
                  /\ cd_error' = st.error
                  /\ cd_channels' = st.channels
                  /\ cd_exited' = st.exited
                  /\ cd_log' = st.log
                  /\ cd_timers' = {}
                  /\ cd_socket' = "destroyed"
                  /\ UNCHANGED cd_closed
          ELSE IF w.state = "registered"
          THEN LET closed == [cd_closed EXCEPT ![ch] = TRUE]
                   st == IF w.kind = "user_close"
                         THEN ChannelDestroyed([CdState EXCEPT !.waiters = answered,
                                                               !.closed = closed],
                                               ch, NoError, cd_socket)
                         ELSE [CdState EXCEPT !.waiters = answered]
               IN /\ cd_closed' = closed
                  /\ cd_waiters' = st.waiters
                  /\ cd_destroyed' = st.destroyed
                  /\ cd_error' = st.error
                  /\ cd_channels' = st.channels
                  /\ cd_exited' = st.exited
                  /\ UNCHANGED <<cd_log, cd_timers, cd_socket>>
          ELSE /\ cd_waiters' = answered
               /\ UNCHANGED <<cd_closed, cd_destroyed, cd_error, cd_channels, cd_exited,
                              cd_log, cd_timers, cd_socket>>
    /\ UNCHANGED <<cd_wire, cd_closing>>
    /\ UNCHANGED notCd

\* call_api calls before and after a destroy of a channel or the connection
CdCallNext ==
    \/ \E ch \in 0..CdChildren : CdCallApi(ch)
    \/ CdRegisterTick
    \/ \E i \in 1..(MaxCdCalls + CdChildren + 1) : CdReply(i)
    \/ \E ch \in 1..CdChildren, error \in CdChildErrors : CdChildDestroy(ch, error)
    \/ \E error \in CdErrors : CdDestroy(error)

\* channels closed by the user, by the broker or by a soft error of a
\* subclass; the connection itself is destroyed by nobody but the demuxer
CdCloseNext ==
    \/ \E ch \in 1..CdChildren : CdClose(ch)
    \/ CdRegisterTick
    \/ \E i \in 1..(MaxCdCloses + CdChildren + 1) : CdCloseOkRecv(i)
    \/ \E ch \in 1..CdChildren, error \in CdChildErrors : CdChildDestroy(ch, error)
    \/ \E ch \in 1..CdChildren : \E args \in BrokerCloseArgs(ch) : CdCloseRecv(ch, args)
    \/ \E c \in cd_closing : CdCloseDestroy(c)

(***************************************************************************)
(* One message on its way from PublishStream through the broker to         *)
(* ConsumeStream.  The publisher writes the frames _publish_chunk writes;  *)
(* the broker is the peer AMQP 0-9-1 describes: it refuses a frame whose   *)
(* payload is longer than the negotiated frame_max and a body frame that   *)
(* does not follow a content header, and it delivers a routed message as   *)
(* basic.deliver, a content header and body frames of at most frame_max    *)
(* bytes.  The consumer handles the chunks as ConsumeStream._writeAsync.   *)
(***************************************************************************)
\* the messages published: properties set, a body of 1..MaxE2eBody bytes
\* given as a Buffer or as a Readable yielding chunks of at most FrameMax
E2eInputs ==
    { [props |-> "set", kind |-> "buffer", lens |-> <<n>>] : n \in 1..MaxE2eBody }
    \cup { [props |-> "set", kind |-> "readable", lens |-> l] :
             l \in { <<1>>, <<1, 1>>, <<FrameMax>>, <<FrameMax, 1>>,
                     <<FrameMax, FrameMax, 1>> } }

E2eNoInput == [props |-> "none", kind |-> "none", lens |-> <<>>]

E2eNoContent == [state |-> "open", props |-> "none", body_size |-> 0, body |-> <<>>]

RECURSIVE SplitBody(_, _)
\* the broker cuts a body into payloads of at most max bytes
SplitBody(body, max) ==
    IF Len(body) = 0 THEN <<>>
    ELSE <<SubSeq(body, 1, Min(max, Len(body)))>>
         \o SplitBody(SubSeq(body, Min(max, Len(body)) + 1, Len(body)), max)

\* what the broker writes to the consumer for a routed message
DeliverFrames(props, body) ==
    <<[type |-> "deliver", props |-> "none", body_size |-> 0, payload |-> <<>>],
      [type |-> "header", props |-> props, body_size |-> Len(body), payload |-> <<>>]>>
    \o [k \in 1..Len(SplitBody(body, FrameMax)) |->
            [type |-> "body", props |-> "none", body_size |-> 0,
             payload |-> SplitBody(body, FrameMax)[k]]]

\* PublishStream.write(message): _publish_chunk chooses the path
E2ePublish(input) ==
    /\ e2e_stage = "idle"
    /\ e2e_input' = input
    /\ e2e_stage' = "publish"
    /\ e2e_chunks' = PublishChunk(input).chunks
    /\ UNCHANGED <<e2e_up, e2e_broker, e2e_down, e2e_current, e2e_wait_size,
                   e2e_delivered, e2e_stream, e2e_acks>>
    /\ UNCHANGED notE2e

\* _publish_api_common: basic.publish, then the content header
E2eSendMethod ==
    /\ e2e_stage = "publish"
    /\ e2e_up' = Append(e2e_up, PublishFrame(1))
    /\ e2e_stage' = "header"
    /\ UNCHANGED <<e2e_input, e2e_chunks, e2e_broker, e2e_down, e2e_current,
                   e2e_wait_size, e2e_delivered, e2e_stream, e2e_acks>>
    /\ UNCHANGED notE2e

E2eSendHeader ==
    /\ e2e_stage = "header"
    /\ e2e_up' = e2e_up \o HeaderFrames(1, e2e_input.props, PublishChunk(e2e_input).body_size)
    /\ e2e_stage' = IF PublishChunk(e2e_input).path = "readable" THEN "body" ELSE "sent"
    /\ UNCHANGED <<e2e_input, e2e_chunks, e2e_broker, e2e_down, e2e_current,
                   e2e_wait_size, e2e_delivered, e2e_stream, e2e_acks>>
    /\ UNCHANGED notE2e

\* BodyStream._writeAsync: one chunk of the readable, one body frame
E2eSendBody ==
    /\ e2e_stage = "body"
    /\ e2e_up' = Append(e2e_up, BodyFrame(1, Head(e2e_chunks)))
    /\ e2e_chunks' = Tail(e2e_chunks)
    /\ e2e_stage' = IF Len(e2e_chunks) = 1 THEN "sent" ELSE "body"
    /\ UNCHANGED <<e2e_input, e2e_broker, e2e_down, e2e_current, e2e_wait_size,
                   e2e_delivered, e2e_stream, e2e_acks>>
    /\ UNCHANGED notE2e

\* the broker reads the next frame of the publisher.  A payload longer than
\* frame_max is a frame_error and a body frame without a header an
\* unexpected_frame: the broker closes the connection and drops the content.
\* A complete content is routed to the queue and delivered to the consumer.
E2eBrokerRead ==
    /\ e2e_up # <<>>
    /\ e2e_up' = Tail(e2e_up)
    /\ LET f == Head(e2e_up)
           b == e2e_broker
       IN  IF b.state \in {"frame_error", "unexpected_frame"}
           THEN UNCHANGED <<e2e_broker, e2e_down>>
           ELSE IF Len(f.payload) > FrameMax
           THEN /\ e2e_broker' = [E2eNoContent EXCEPT !.state = "frame_error"]
                /\ UNCHANGED e2e_down
           ELSE IF f.type = "publish"
           THEN /\ e2e_broker' = [E2eNoContent EXCEPT !.state = "method"]
                /\ UNCHANGED e2e_down
           ELSE IF f.type = "header" /\ b.state = "method"
           THEN /\ e2e_broker' = [state |-> "content", props |-> f.props,
                                  body_size |-> f.body_size, body |-> <<>>]
                /\ UNCHANGED e2e_down
           ELSE IF f.type = "body" /\ b.state = "content"
                   /\ Len(b.body) + Len(f.payload) <= b.body_size
           THEN LET body == b.body \o f.payload
                IN  IF Len(body) = b.body_size
                    THEN /\ e2e_broker' = [E2eNoContent EXCEPT !.state = "routed"]
                         /\ e2e_down' = e2e_down \o DeliverFrames(b.props, body)
                    ELSE /\ e2e_broker' = [b EXCEPT !.body = body]
                         /\ UNCHANGED e2e_down
           ELSE /\ e2e_broker' = [E2eNoContent EXCEPT !.state = "unexpected_frame"]
                /\ UNCHANGED e2e_down
    /\ UNCHANGED <<e2e_input, e2e_stage, e2e_chunks, e2e_current, e2e_wait_size,
                   e2e_delivered, e2e_stream, e2e_acks>>
    /\ UNCHANGED notE2e

\* ConsumeStream._writeAsync on the next chunk ChannelConsume pushed
E2eConsume ==
    /\ e2e_down # <<>>
    /\ e2e_stream = "open"
    /\ e2e_down' = Tail(e2e_down)
    /\ LET f == Head(e2e_down)
           k == Len(e2e_delivered)
       IN  IF f.type = "deliver"
           THEN IF e2e_current # "none"
                THEN /\ e2e_stream' = "error"
                     /\ UNCHANGED <<e2e_current, e2e_wait_size, e2e_delivered>>
                ELSE /\ e2e_current' = "deliver"
                     /\ UNCHANGED <<e2e_wait_size, e2e_delivered, e2e_stream>>
           ELSE IF f.type = "header"
           THEN IF e2e_current # "deliver"
                THEN /\ e2e_stream' = "error"
                     /\ UNCHANGED <<e2e_current, e2e_wait_size, e2e_delivered>>
                ELSE /\ e2e_delivered' = Append(e2e_delivered,
                            [properties |-> f.props, body_size |-> f.body_size,
                             body |-> <<>>, ended |-> f.body_size = 0])
                     /\ e2e_current' = IF f.body_size # 0 THEN "body" ELSE "none"
                     /\ e2e_wait_size' = IF f.body_size # 0 THEN f.body_size
                                         ELSE FlushWaitSize(e2e_wait_size)
                     /\ UNCHANGED e2e_stream
           ELSE IF e2e_current # "body" \/ e2e_wait_size - Len(f.payload) < 0
           THEN /\ e2e_stream' = "error"
                /\ UNCHANGED <<e2e_current, e2e_wait_size, e2e_delivered>>
           ELSE LET wait_size == e2e_wait_size - Len(f.payload)
                    body == BodyPushed(e2e_delivered[k].body, f.payload, e2e_wait_size)
                IN  /\ e2e_delivered' = [e2e_delivered EXCEPT
                                            ![k].body = body, ![k].ended = (wait_size = 0)]
                    /\ e2e_current' = IF wait_size = 0 THEN "none" ELSE "body"
                    /\ e2e_wait_size' = IF wait_size = 0 THEN FlushWaitSize(e2e_wait_size)
                                        ELSE wait_size
                    /\ UNCHANGED e2e_stream
    /\ UNCHANGED <<e2e_input, e2e_stage, e2e_chunks, e2e_up, e2e_broker, e2e_acks>>
    /\ UNCHANGED notE2e

\* the application has drained the body: chunk.ack() writes basic.ack and
\* ts.unsubscribe() pushes null into _input, which ends the stream
E2eAckUnsubscribe ==
    /\ e2e_stream = "open"
    /\ e2e_acks = 0
    /\ e2e_delivered # <<>>
    /\ e2e_delivered[Len(e2e_delivered)].ended
    /\ e2e_acks' = e2e_acks + 1
    /\ e2e_stream' = "ended"
    /\ UNCHANGED <<e2e_input, e2e_stage, e2e_chunks, e2e_up, e2e_broker, e2e_down,
                   e2e_current, e2e_wait_size, e2e_delivered>>
    /\ UNCHANGED notE2e

E2eIdle ==
    /\ e2e_input = E2eNoInput
    /\ e2e_stage = "idle"
    /\ e2e_chunks = <<>>
    /\ e2e_up = <<>>
    /\ e2e_broker = E2eNoContent
    /\ e2e_down = <<>>
    /\ e2e_current = "none"
    /\ e2e_wait_size = 0
    /\ e2e_delivered = <<>>
    /\ e2e_stream = "open"
    /\ e2e_acks = 0

E2eNext ==
    \/ \E input \in E2eInputs : E2ePublish(input)
    \/ E2eSendMethod
    \/ E2eSendHeader
    \/ E2eSendBody
    \/ E2eBrokerRead
    \/ E2eConsume
    \/ E2eAckUnsubscribe


(***************************************************************************)
(* BufferWriter and the API encoders.  A buffer is the sequence of the      *)
(* bytes written so far (its length is the writer's offset); strings are    *)
(* sequences of character codes of one byte each.                           *)
(***************************************************************************)
MaxFwCalls == 2
LongNames == {127, 128}

BASIC_PUBLISH == 3932200
QUEUE_DECLARE == 3276810
CHANNEL_CLOSE == 1310760
FRAME_MIN_SIZE == 4096

\* writeUInt16BE / writeBigUInt64BE: the bytes of a number
Bytes16(n) == <<(n \div 256) % 256, n % 256>>
Bytes64(n) == <<0, 0, 0, 0>> \o Bytes32(n)

\* BufferWriter.shortstr: the length in one byte, then the bytes
ShortStr(s) == <<Len(s)>> \o s

\* BufferWriter.table: the length of the items in four bytes, then the items
Table(items) == Bytes32(Len(items)) \o items

\* BufferWriter.framestart: frame type, channel, size; offset 7
framestart(frame_type, channel, size) == <<frame_type>> \o Bytes16(channel) \o Bytes32(size)

\* BufferWriter.methodstart: framestart and the method id; offset 11
methodstart(channel, size, method_id) ==
    framestart(FRAME_METHOD, channel, size) \o Bytes32(method_id)

\* BufferWriter.headerstart: framestart with size 0, class id, weight 0, body size
headerstart(channel, class_id, body_size) ==
    framestart(FRAME_HEADER, channel, 0) \o Bytes16(class_id) \o Bytes16(0) \o Bytes64(body_size)

\* BufferWriter.frameend
frameend(buffer) == buffer \o <<FRAME_END>>

\* a plausible slip: the length of the whole buffer
setframelengthWhole(buffer) ==
    SubSeq(buffer, 1, 3) \o Bytes32(Len(buffer)) \o SubSeq(buffer, 8, Len(buffer))

\* BufferWriter.setframelength: writes offset - EMPTY_FRAME_SIZE at offset 3
setframelength(buffer) ==
    SubSeq(buffer, 1, 3) \o Bytes32(Len(buffer) - EMPTY_FRAME_SIZE) \o SubSeq(buffer, 8, Len(buffer))

\* the characters RE_XQ_NAME accepts: a-z A-Z 0-9 - _ . :
XQ_NAME_CHARS == (97..122) \cup (65..90) \cup (48..57) \cup {45, 95, 46, 58}

\* a plausible slip: the limit of a short string
ASSERTS_lengthShortStr(value) == Len(value) > 255

\* ASSERTS.length throws when value.length > 127
ASSERTS_length(value) == Len(value) > 127

\* ASSERTS.regexp throws when RE_XQ_NAME does not match
ASSERTS_regexp(value) == \E i \in 1..Len(value) : value[i] \notin XQ_NAME_CHARS

\* the error ASSERTS.length and ASSERTS.regexp throw for a name, in this order
NameError(value) ==
    IF ASSERTS_length(value) THEN "Length should not be > 127"
    ELSE IF ASSERTS_regexp(value) THEN "Invalid format"
    ELSE "none"

\* what an encoder leaves: the error it threw, or the writer it hands to writeSocket
Thrown(error) == [error |-> error, size |-> 0, dynamic |-> FALSE, buffer |-> <<>>]
Written(size, dynamic, buffer) ==
    [error |-> "none", size |-> size, dynamic |-> dynamic, buffer |-> buffer]

\* writeSocket: a dynamic writer sends buffer.subarray(0, offset), a static one
\* its whole buffer of `size` bytes (bytes never written are shown as 0)
SocketBytes(writer) ==
    IF writer.dynamic THEN writer.buffer
    ELSE [i \in 1..writer.size |-> IF i <= Len(writer.buffer) THEN writer.buffer[i] ELSE 0]

\* writeVoid
writeVoid(method_id, channel) ==
    Written(EMPTY_FRAME_SIZE + 4, FALSE, frameend(methodstart(channel, 4, method_id)))

\* writeBodyOne
writeBodyOne(channel, body) ==
    Written(EMPTY_FRAME_SIZE + Len(body), FALSE,
            framestart(FRAME_BODY, channel, Len(body)) \o body \o <<FRAME_END>>)

\* HEARTBEAT = new BufferWriter(EMPTY_FRAME_SIZE, false).heartbeat().buffer
HEARTBEAT == Written(EMPTY_FRAME_SIZE, FALSE, frameend(framestart(FRAME_HEARTBEAT, 0, 0)))

\* API.basic_publish (mandatory: true, immediate: false gives flag 1)
basic_publish(channel, exchange, routing_key) ==
    LET frame_size == 17 + Len(exchange) + Len(routing_key)
    IN IF NameError(exchange) # "none" THEN Thrown(NameError(exchange))
       ELSE IF Len(exchange) > 255 \/ Len(routing_key) > 255 THEN Thrown("out of range")
       ELSE Written(frame_size, FALSE,
                frameend(methodstart(channel, frame_size - EMPTY_FRAME_SIZE, BASIC_PUBLISH)
                         \o <<0, 0>> \o ShortStr(exchange) \o ShortStr(routing_key) \o <<1>>))

\* API.channel_close
channel_close(channel, reply_code, reply_text, method_id) ==
    LET frame_size == 19 + Len(reply_text)
    IN IF reply_code = 0 \/ reply_text = <<>> THEN Thrown("Value should not be empty")
       ELSE Written(frame_size, FALSE,
                frameend(methodstart(channel, frame_size - EMPTY_FRAME_SIZE, CHANNEL_CLOSE)
                         \o Bytes16(reply_code) \o ShortStr(reply_text) \o Bytes32(method_id)))

\* API.queue_declare: a dynamic writer; items are the encoded items of the
\* arguments table
queue_declare(channel, queue, items) ==
    IF NameError(queue) # "none" THEN Thrown(NameError(queue))
    ELSE Written(20 + Len(queue) + (IF items = <<>> THEN 0 ELSE FRAME_MIN_SIZE), TRUE,
            setframelength(frameend(
                methodstart(channel, 0, QUEUE_DECLARE)
                \o <<0, 0>> \o ShortStr(queue) \o <<0>> \o Table(items))))

\* basic properties of the model: priority (-1: not given) and app_id
NoProps == [priority |-> -1, has_app_id |-> FALSE, app_id |-> <<>>]

\* API.publish_header: a dynamic writer; returns before writing anything when
\* the properties have no key
publish_header(channel, value, body_size) ==
    IF value = NoProps THEN Thrown("none")
    ELSE LET flag == (IF value.priority # -1 THEN 2048 ELSE 0) + (IF value.has_app_id THEN 8 ELSE 0)
         IN Written(FRAME_MIN_SIZE, TRUE,
                setframelength(frameend(
                    headerstart(channel, BASIC_PROPERTIES_CLASS, body_size)
                    \o Bytes16(flag)
                    \o (IF value.priority # -1 THEN <<value.priority>> ELSE <<>>)
                    \o (IF value.has_app_id THEN ShortStr(value.app_id) ELSE <<>>))))

\* the frame a writer puts on the socket: none when the encoder threw or returned
FwFrame(call, kind, writer) ==
    IF writer.size = 0 THEN <<>>
    ELSE <<[call |-> call, kind |-> kind, dynamic |-> writer.dynamic, bytes |-> SocketBytes(writer)]>>

RECURSIVE FwBodyFrames(_, _, _)
\* BodyStream._writeAsync: one writeBodyOne per chunk of the body
FwBodyFrames(call, channel, chunks) ==
    IF chunks = <<>> THEN <<>>
    ELSE FwFrame(call, "body", writeBodyOne(channel, Head(chunks)))
         \o FwBodyFrames(call, channel, Tail(chunks))

\* a name of n characters 'a'
NameOf(n) == [i \in 1..n |-> 97]

\* exchange and queue names: empty, valid, with a slash, and the long ones
FwNames ==
    {<<>>, <<97, 58, 45>>, <<97, 47>>} \cup { NameOf(n) : n \in LongNames }

FwChannels == {1, 258}

FwProps ==
    {NoProps,
     [priority |-> -1, has_app_id |-> TRUE, app_id |-> <<84>>],
     [priority |-> 5, has_app_id |-> FALSE, app_id |-> <<>>],
     [priority |-> 10, has_app_id |-> TRUE, app_id |-> <<84>>]}

\* the chunks of a message body
FwBodies == {<<>>, <<<<7, 8>>, <<9>>>>}

\* the send of PublishStream._publish_readable / _publish_header_only:
\* _publish_api_common (priority check, basic_publish, publish_header), then
\* the body through BodyStream; the first throw ends it
FwPublish(channel, exchange, props, chunks) ==
    LET call == Len(fw_calls) + 1
        method == basic_publish(channel, exchange, <<>>)
        header == publish_header(channel, props, Len(Flatten(chunks)))
        error == IF props.priority # -1 /\ (props.priority < 0 \/ props.priority > 9)
                 THEN "Invalid priority value"
                 ELSE method.error
    IN /\ Len(fw_calls) < MaxFwCalls
       /\ fw_calls' = Append(fw_calls, [api |-> "basic_publish", name |-> exchange, error |-> error])
       /\ fw_wire' = IF error # "none" THEN fw_wire
                     ELSE fw_wire \o FwFrame(call, "method", method)
                          \o FwFrame(call, "header", header)
                          \o FwBodyFrames(call, channel, chunks)
       /\ UNCHANGED notFw

\* API.queue_declare as the send of a call_api
FwQueueDeclare(channel, queue, items) ==
    LET call == Len(fw_calls) + 1
        method == queue_declare(channel, queue, items)
    IN /\ Len(fw_calls) < MaxFwCalls
       /\ fw_calls' = Append(fw_calls, [api |-> "queue_declare", name |-> queue, error |-> method.error])
       /\ fw_wire' = fw_wire \o FwFrame(call, "method", method)
       /\ UNCHANGED notFw

\* API.channel_close as the send of call_close
FwChannelClose(channel, reply_code, reply_text) ==
    LET call == Len(fw_calls) + 1
        method == channel_close(channel, reply_code, reply_text, 0)
    IN /\ Len(fw_calls) < MaxFwCalls
       /\ fw_calls' = Append(fw_calls, [api |-> "channel_close", name |-> <<>>, error |-> method.error])
       /\ fw_wire' = fw_wire \o FwFrame(call, "method", method)
       /\ UNCHANGED notFw

\* a method without arguments (API.channel_close_ok and the like): writeVoid
FwVoid(channel) ==
    /\ Len(fw_calls) < MaxFwCalls
    /\ fw_calls' = Append(fw_calls, [api |-> "channel_close_ok", name |-> <<>>, error |-> "none"])
    /\ fw_wire' = fw_wire \o FwFrame(Len(fw_calls) + 1, "method", writeVoid(CHANNEL_CLOSE_OK, channel))
    /\ UNCHANGED notFw

\* Connection.handle_heartbeat: socket.write(HEARTBEAT)
FwHeartbeat ==
    /\ Len(fw_calls) < MaxFwCalls
    /\ fw_calls' = Append(fw_calls, [api |-> "heartbeat", name |-> <<>>, error |-> "none"])
    /\ fw_wire' = fw_wire \o FwFrame(Len(fw_calls) + 1, "heartbeat", HEARTBEAT)
    /\ UNCHANGED notFw

FwIdle ==
    /\ fw_wire = <<>>
    /\ fw_calls = <<>>

FwNext ==
    \/ \E channel \in FwChannels, exchange \in FwNames, props \in FwProps, chunks \in FwBodies :
          FwPublish(channel, exchange, props, chunks)
    \/ \E channel \in FwChannels, queue \in FwNames, items \in {<<>>, <<1, 120, 116, 1>>} :
          FwQueueDeclare(channel, queue, items)
    \/ \E channel \in FwChannels, reply_code \in {0, REPLY_SUCCESS}, reply_text \in {<<>>, <<79, 75>>} :
          FwChannelClose(channel, reply_code, reply_text)
    \/ \E channel \in FwChannels : FwVoid(channel)
    \/ FwHeartbeat


(***************************************************************************)
(* Client._connect: socket.setTimeout(connection_timeout, callback).  The  *)
(* timeout of a net.Socket is an inactivity timeout: every read and write  *)
(* on the socket starts it again, and it stays set until setTimeout(0).    *)
(***************************************************************************)
ConnectionTimeout == 2
HandshakeSteps == 4
MaxCtClock == 7

\* a ms passes; the timeout callback runs as soon as the socket was idle for
\* connection_timeout ms, so time does not pass that point with the timer due
CtClock ==
    /\ ct_now < MaxCtClock
    /\ ct_socket # "open" \/ ct_now - ct_last < ConnectionTimeout
    /\ ct_now' = ct_now + 1
    /\ UNCHANGED <<ct_last, ct_steps, ct_socket>>
    /\ UNCHANGED notCt

\* the next frame of the handshake is written or read (protocol header,
\* start / start-ok, tune / tune-ok and open, open-ok): socket activity
CtHandshake ==
    /\ ct_socket = "open"
    /\ ct_now - ct_last < ConnectionTimeout
    /\ ct_steps < HandshakeSteps
    /\ ct_steps' = ct_steps + 1
    /\ ct_last' = ct_now
    /\ UNCHANGED <<ct_now, ct_socket>>
    /\ UNCHANGED notCt

\* a frame is written or read on the opened connection: socket activity
CtFrame ==
    /\ ct_socket = "open"
    /\ ct_now - ct_last < ConnectionTimeout
    /\ ct_steps = HandshakeSteps
    /\ ct_last # ct_now
    /\ ct_last' = ct_now
    /\ UNCHANGED <<ct_now, ct_steps, ct_socket>>
    /\ UNCHANGED notCt

\* the timeout callback: socket.destroy(new Error(`Connection timeout [..] expired`))
CtTimeout ==
    /\ ct_socket = "open"
    /\ ct_now - ct_last >= ConnectionTimeout
    /\ ct_socket' = "timeout"
    /\ UNCHANGED <<ct_now, ct_last, ct_steps>>
    /\ UNCHANGED notCt

CtIdle ==
    /\ ct_now = 0
    /\ ct_last = 0
    /\ ct_steps = 0
    /\ ct_socket = "open"

CtNext ==
    \/ CtClock
    \/ CtHandshake
    \/ CtFrame
    \/ CtTimeout

(***************************************************************************)
(* Connection.open: the handshake and the heartbeat tasks it starts.  The  *)
(* broker may send any connection method at any time; a method nobody      *)
(* waits for goes to its handler (connection.close, connection.blocked)    *)
(* or to fatal.                                                            *)
(***************************************************************************)
CONNECTION_START == 655370
CONNECTION_SECURE == 655380
CONNECTION_TUNE == 655390
CONNECTION_OPEN_OK == 655401
CONNECTION_CLOSE == 655410
CONNECTION_BLOCKED == 655420

MaxOpRecv == 4
MaxOpHb == 2

\* the arguments of connection.tune, and the options of the client
\* (channel_max, frame_max and heartbeat default to 0)
OpTune(cmax, fmax, hb) == [channel_max |-> cmax, frame_max |-> fmax, heartbeat |-> hb]

OpNoTune == OpTune(0, 0, 0)

OpTunes == { OpTune(c, f, h) : c \in {0, 5, 2047}, f \in {0, 4096, 131072}, h \in {0, 60} }

OpOptions == { OpTune(c, f, h) : c \in {0, 10}, f \in {0, 8192}, h \in {0, 5} }

\* what the broker sends: connection.start with a usable version and
\* mechanism or not, connection.tune, and methods without arguments of
\* interest
OpBrokerMethods ==
    { [method_id |-> CONNECTION_START, usable |-> u, args |-> OpNoTune] : u \in BOOLEAN }
    \cup { [method_id |-> CONNECTION_TUNE, usable |-> TRUE, args |-> t] : t \in OpTunes }
    \cup { [method_id |-> m, usable |-> TRUE, args |-> OpNoTune] :
             m \in {CONNECTION_SECURE, CONNECTION_OPEN_OK, CONNECTION_CLOSE, CONNECTION_BLOCKED} }

\* tune_ok.channel_max and tune_ok.frame_max: the option when it is set and
\* below the value of the broker, else the value of the broker
TuneOkChannelMax(options_channel_max, tune_channel_max) ==
    IF options_channel_max # 0 /\ options_channel_max < tune_channel_max
    THEN options_channel_max ELSE tune_channel_max

\* tune_ok = {...tune} with the three fields of open()
TuneOk(options, tune) ==
    OpTune(TuneOkChannelMax(options.channel_max, tune.channel_max),
           TuneOkChannelMax(options.frame_max, tune.frame_max),
           options.heartbeat)

\* this.options after the tuning: the else branches store the value of the
\* broker, the heartbeat is left alone
TunedOptions(options, tune) ==
    OpTune(TuneOkChannelMax(options.channel_max, tune.channel_max),
           TuneOkChannelMax(options.frame_max, tune.frame_max),
           options.heartbeat)

OpFrame(name, cmax) == [frame |-> name, channel_max |-> cmax]

\* no deferred send is pending
OpNoFrame == OpFrame("none", 0)

\* the heartbeat tasks: the interval of the sender in seconds (0: not
\* started), whether the checker runs, the heartbeat frames written
OpHb(send, check, sent) == [send |-> send, check |-> check, sent |-> sent]

\* every call of open() waits for any method of the handshake
OpRepliesAny(stage) ==
    {CONNECTION_START, CONNECTION_SECURE, CONNECTION_TUNE, CONNECTION_OPEN_OK}

\* the replies call_api registers for each call of open()
OpReplies(stage) ==
    IF stage = "start" THEN {CONNECTION_START}
    ELSE IF stage = "secure_or_tune" THEN {CONNECTION_SECURE, CONNECTION_TUNE}
    ELSE {CONNECTION_OPEN_OK}

\* response.method_id === METHODS.connection_secure
SecureUnexpected(method_id) == method_id = CONNECTION_SECURE

\* open() is called: call_api([connection_start], write the protocol header)
OpOpen(options) ==
    /\ op_stage = "idle"
    /\ op_stage' = "start"
    /\ op_options' = options
    /\ op_tick' = OpFrame("protocol_header", 0)
    /\ UNCHANGED <<op_waiting, op_wire, op_recv, op_opened, op_error, op_exited,
                   op_tune, op_tune_ok, op_hb>>
    /\ UNCHANGED notOp

\* the nextTick callback of call_api: register the waiter, then send
OpTick ==
    /\ ~op_exited
    /\ op_tick # OpNoFrame
    /\ op_waiting' = OpReplies(op_stage)
    /\ op_wire' = Append(op_wire, op_tick)
    /\ op_tick' = OpNoFrame
    /\ UNCHANGED <<op_stage, op_options, op_recv, op_opened, op_error, op_exited,
                   op_tune, op_tune_ok, op_hb>>
    /\ UNCHANGED notOp

\* a method of the broker is handled: handle_method, and the part of open()
\* that runs when its waiter resolves, up to the next deferred call_api.
\* tune-ok is written by call_api([]) at once, unless its encoder throws on
\* a channel_max of 0.  After connection.open-ok the heartbeat tasks start.
\* A failed open() makes _connect destroy the connection, and so does the
\* connection.close handler after it wrote close-ok.
OpRecv(method) ==
    /\ ~op_exited
    /\ op_tick = OpNoFrame
    /\ op_stage \notin {"idle", "failed"}
    /\ Len(op_recv) < MaxOpRecv
    /\ op_recv' = Append(op_recv, method.method_id)
    /\ IF method.method_id \in op_waiting
       THEN /\ op_waiting' = {}
            /\ UNCHANGED op_exited
            /\ IF method.method_id = CONNECTION_START
               THEN /\ UNCHANGED <<op_options, op_tune, op_tune_ok, op_hb>>
                    /\ IF method.usable
                       THEN /\ op_stage' = "secure_or_tune"
                            /\ op_tick' = OpFrame("start_ok", 0)
                            /\ UNCHANGED <<op_wire, op_opened, op_error>>
                       ELSE /\ op_stage' = "failed"
                            /\ op_error' = "not supported"
                            /\ UNCHANGED <<op_tick, op_wire, op_opened>>
               ELSE IF method.method_id \in {CONNECTION_SECURE, CONNECTION_TUNE}
               THEN IF SecureUnexpected(method.method_id)
                    THEN /\ op_stage' = "failed"
                         /\ op_error' = "Unexpected connection.secure"
                         /\ UNCHANGED <<op_tick, op_wire, op_opened,
                                        op_options, op_tune, op_tune_ok, op_hb>>
                    ELSE /\ op_tune' = <<method.args>>
                         /\ op_tune_ok' = <<TuneOk(op_options, method.args)>>
                         /\ op_options' = TunedOptions(op_options, method.args)
                         /\ UNCHANGED op_hb
                         /\ IF TuneOk(op_options, method.args).channel_max = 0
                            THEN /\ op_stage' = "failed"
                                 /\ op_error' = "Value of arguments.channel_max should not be empty"
                                 /\ UNCHANGED <<op_tick, op_wire, op_opened>>
                            ELSE /\ op_stage' = "open_ok"
                                 /\ op_wire' = Append(op_wire,
                                        OpFrame("tune_ok", TuneOk(op_options, method.args).channel_max))
                                 /\ op_tick' = OpFrame("open", 0)
                                 /\ UNCHANGED <<op_opened, op_error>>
               ELSE /\ op_stage' = "opened"
                    /\ op_opened' = TRUE
                    /\ op_hb' = OpHb(op_tune[1].heartbeat, op_options.heartbeat # 0, 0)
                    /\ UNCHANGED <<op_tick, op_wire, op_error, op_options, op_tune, op_tune_ok>>
       ELSE /\ UNCHANGED <<op_options, op_tune, op_tune_ok, op_hb>>
            /\ IF method.method_id = CONNECTION_CLOSE
               THEN /\ op_stage' = "failed"
                    /\ op_error' = "closed by the broker"
                    /\ op_wire' = Append(op_wire, OpFrame("close_ok", 0))
                    /\ op_waiting' = {}
                    /\ UNCHANGED <<op_tick, op_opened, op_exited>>
               ELSE IF method.method_id = CONNECTION_BLOCKED
               THEN UNCHANGED <<op_stage, op_tick, op_waiting, op_wire, op_opened, op_error, op_exited>>
               ELSE /\ op_exited' = TRUE
                    /\ UNCHANGED <<op_stage, op_tick, op_waiting, op_wire, op_opened, op_error>>
    /\ UNCHANGED notOp

\* the timer of start_send_heartbeat fires on a connection that is not
\* destroyed: _send writes HEARTBEAT
OpSendHeartbeat ==
    /\ ~op_exited
    /\ op_stage = "opened"
    /\ op_hb.send # 0
    /\ op_hb.sent < MaxOpHb
    /\ op_hb' = OpHb(op_hb.send, op_hb.check, op_hb.sent + 1)
    /\ UNCHANGED <<op_stage, op_options, op_tick, op_waiting, op_wire, op_recv, op_opened,
                   op_error, op_exited, op_tune, op_tune_ok>>
    /\ UNCHANGED notOp

\* the interval of start_check_heartbeat fires after the broker was silent
\* for more than max_delay: the connection is destroyed
OpHeartbeatExpired ==
    /\ ~op_exited
    /\ op_stage = "opened"
    /\ op_hb.check
    /\ op_stage' = "failed"
    /\ op_error' = "Heartbeat timeout expired"
    /\ op_waiting' = {}
    /\ UNCHANGED <<op_options, op_tick, op_wire, op_recv, op_opened, op_exited,
                   op_tune, op_tune_ok, op_hb>>
    /\ UNCHANGED notOp

OpIdle ==
    /\ op_stage = "idle"
    /\ op_options = OpNoTune
    /\ op_tick = OpNoFrame
    /\ op_waiting = {}
    /\ op_wire = <<>>
    /\ op_recv = <<>>
    /\ op_opened = FALSE
    /\ op_error = "none"
    /\ op_exited = FALSE
    /\ op_tune = <<>>
    /\ op_tune_ok = <<>>
    /\ op_hb = OpHb(0, FALSE, 0)

OpNext ==
    \/ \E options \in OpOptions : OpOpen(options)
    \/ OpTick
    \/ \E method \in OpBrokerMethods : OpRecv(method)
    \/ OpSendHeartbeat
    \/ OpHeartbeatExpired

(***************************************************************************)
(* ChannelConsume.unsubscribe and the pipeline callback of subscribe, on   *)
(* the consume channels of a connection.  ChannelConsume.destroy sets      *)
(* _cancelled too, so _cancelled is: unsubscribed or destroyed.            *)
(***************************************************************************)
\* unsubscribe() calls on one channel
MaxUnsubscribes == 2

Cancelled(ch) == ch \in us_unsubscribed \/ cd_destroyed[ch]

\* unsubscribe(): if (this._cancelled) return; this._cancelled = true;
\* this._input.push(null)
Unsubscribe(ch) ==
    /\ ~cd_exited
    /\ us_calls[ch] < MaxUnsubscribes
    /\ IF Cancelled(ch)
       THEN UNCHANGED <<us_unsubscribed, us_ended>>
       ELSE /\ us_unsubscribed' = us_unsubscribed \cup {ch}
            /\ us_ended' = [us_ended EXCEPT ![ch] = @ + 1]
    /\ us_calls' = [us_calls EXCEPT ![ch] = @ + 1]
    /\ UNCHANGED us_piped
    /\ UNCHANGED cdVars
    /\ UNCHANGED notCdUs

\* the pipeline of _input and the ConsumeStream has ended after the end of
\* the stream was pushed: if (this.destroyed) return;
\* this.connection.destroy(error) with no error
PipelineEnd(ch) ==
    /\ ~cd_exited
    /\ Cancelled(ch)
    /\ ch \notin us_piped
    /\ us_piped' = us_piped \cup {ch}
    /\ IF cd_destroyed[ch]
       THEN UNCHANGED cdVars
       ELSE /\ LET st == ConnectionDestroyed(NoError)
               IN /\ cd_waiters' = st.waiters
                  /\ cd_destroyed' = st.destroyed
                  /\ cd_error' = st.error
                  /\ cd_channels' = st.channels
                  /\ cd_exited' = st.exited
                  /\ cd_log' = st.log
            /\ cd_timers' = {}
            /\ cd_socket' = "destroyed"
            /\ UNCHANGED <<cd_wire, cd_closing, cd_closed>>
    /\ UNCHANGED <<us_unsubscribed, us_ended, us_calls>>
    /\ UNCHANGED notCdUs

UsIdle ==
    /\ us_unsubscribed = {}
    /\ us_ended = [c \in 1..CdChildren |-> 0]
    /\ us_calls = [c \in 1..CdChildren |-> 0]
    /\ us_piped = {}

\* consumers are unsubscribed while requests are in flight and the broker
\* closes channels
UsNext ==
    \/ \E ch \in 1..CdChildren : Unsubscribe(ch)
    \/ \E ch \in 1..CdChildren : PipelineEnd(ch)
    \/ \E ch \in 1..CdChildren : CdCallApi(ch)
    \/ CdRegisterTick
    \/ \E i \in 1..(MaxCdCalls + CdChildren + 1) : CdReply(i)
    \/ \E i \in 1..(MaxCdCalls + CdChildren + 1) : CdCloseOkRecv(i)
    \/ \E ch \in 1..CdChildren : \E args \in BrokerCloseArgs(ch) : CdCloseRecv(ch, args)
    \/ \E c \in cd_closing : CdCloseDestroy(c)

(***************************************************************************)
(* The consumer tag check of ChannelConsume.  The broker sends methods in  *)
(* chunks; handle_method defers each method to process.nextTick, and the   *)
(* continuation of an awaited call_api is a promise job: it runs when the  *)
(* nextTick queue is empty.                                                *)
(***************************************************************************)
ConsumerTags == {"a", "b"}

MaxTgDelivers == 3

BASIC_CONSUME_OK == 3932181
BASIC_DELIVER == 3932220

TgMethod(method_id, tag) == [method_id |-> method_id, consumer_tag |-> tag]

\* the chunks of the broker: one or two methods, basic.consume-ok at most
\* as the first of them
TgChunks ==
    { <<m>> : m \in { TgMethod(id, t) : id \in {BASIC_CONSUME_OK, BASIC_DELIVER}, t \in ConsumerTags } }
    \cup { <<m, TgMethod(BASIC_DELIVER, t)>> :
             m \in { TgMethod(id, u) : id \in {BASIC_CONSUME_OK, BASIC_DELIVER}, u \in ConsumerTags },
             t \in ConsumerTags }

TgCount(chunk, method_id) ==
    Cardinality({i \in DOMAIN chunk : chunk[i].method_id = method_id})

\* this._consumer_tag && (args.consumer_tag !== this._consumer_tag)
TagMismatch(consumer_tag, tag) == consumer_tag # "" /\ tag # consumer_tag

\* subscribe(): basic.qos and its reply, the pipeline, then the call_api of
\* basic.consume has registered its waiter and written the frame
TgSubscribe ==
    /\ tg_stage = "idle"
    /\ tg_stage' = "consume"
    /\ UNCHANGED <<tg_tag, tg_ok, tg_queue, tg_pushed, tg_destroyed, tg_delivers>>
    /\ UNCHANGED notTg

\* a chunk of the broker is decoded: handle_method for each method.  The
\* broker answers basic.consume once.
TgChunk(chunk) ==
    /\ tg_stage \notin {"idle", "resolved"}
    /\ tg_queue = <<>>
    /\ tg_delivers + TgCount(chunk, BASIC_DELIVER) <= MaxTgDelivers
    /\ chunk[1].method_id = BASIC_CONSUME_OK => tg_stage = "consume" /\ tg_ok = ""
    /\ tg_queue' = chunk
    /\ tg_ok' = IF chunk[1].method_id = BASIC_CONSUME_OK THEN chunk[1].consumer_tag ELSE tg_ok
    /\ tg_delivers' = tg_delivers + TgCount(chunk, BASIC_DELIVER)
    /\ UNCHANGED <<tg_stage, tg_tag, tg_pushed, tg_destroyed>>
    /\ UNCHANGED notTg

\* the nextTick callback of handle_method for the oldest deferred method:
\* nothing for a destroyed channel; basic.consume-ok resolves the waiter of
\* subscribe; basic.deliver goes to its handler
TgTick ==
    /\ tg_queue # <<>>
    /\ tg_queue' = Tail(tg_queue)
    /\ LET m == Head(tg_queue)
       IN IF tg_destroyed # "none"
          THEN UNCHANGED <<tg_stage, tg_pushed, tg_destroyed>>
          ELSE IF m.method_id = BASIC_CONSUME_OK
          THEN /\ tg_stage' = "resolved"
               /\ UNCHANGED <<tg_pushed, tg_destroyed>>
          ELSE IF TagMismatch(tg_tag, m.consumer_tag)
          THEN /\ tg_destroyed' = "no_consumers"
               /\ UNCHANGED <<tg_stage, tg_pushed>>
          ELSE /\ tg_pushed' = Append(tg_pushed, m.consumer_tag)
               /\ UNCHANGED <<tg_stage, tg_destroyed>>
    /\ UNCHANGED <<tg_tag, tg_ok, tg_delivers>>
    /\ UNCHANGED notTg

\* subscribe() goes on after its await: this._consumer_tag = args.consumer_tag
TgContinue ==
    /\ tg_stage = "resolved"
    /\ tg_queue = <<>>
    /\ tg_stage' = "subscribed"
    /\ tg_tag' = tg_ok
    /\ UNCHANGED <<tg_ok, tg_queue, tg_pushed, tg_destroyed, tg_delivers>>
    /\ UNCHANGED notTg

TgIdle ==
    /\ tg_stage = "idle"
    /\ tg_tag = ""
    /\ tg_ok = ""
    /\ tg_queue = <<>>
    /\ tg_pushed = <<>>
    /\ tg_destroyed = "none"
    /\ tg_delivers = 0

TgNext ==
    \/ TgSubscribe
    \/ \E chunk \in TgChunks : TgChunk(chunk)
    \/ TgTick
    \/ TgContinue

(***************************************************************************)
(* The body readable of one delivery, in bytes: ConsumeStream pushes every *)
(* body chunk into it with Readable.push, whose return value it does not   *)
(* use, and read() of the readable is empty; the application reads at its  *)
(* own pace.  The broker sends body frames of at most frame_max bytes.     *)
(***************************************************************************)
\* options.frame_max: the highWaterMark of the body readable
BpFrameMax == 2
\* the largest body_size
BpMaxBody == 7

\* Readable.push(chunk): the chunk is added to the buffer whatever the
\* highWaterMark is; the return value tells whether the buffer is below it
ReadablePush(buffered, len, hwm) ==
    [buffered |-> buffered + len, more |-> buffered + len < hwm]

\* chunk.type === 'header' with a body_size: the body readable is created
\* and the message pushed to the reader
BpHeader(body_size) ==
    /\ bp_current = "none"
    /\ bp_current' = "body"
    /\ bp_wait_size' = body_size
    /\ UNCHANGED <<bp_buffered, bp_read, bp_error>>
    /\ UNCHANGED notBp

\* chunk.type === 'body': handle_body pushed the frame into _input on
\* nextTick and _writeAsync takes it
BpBody(len) ==
    /\ bp_current = "body"
    /\ bp_error = "none"
    /\ IF bp_wait_size - len < 0
       THEN /\ bp_error' = "unexpected_frame"
            /\ UNCHANGED <<bp_current, bp_wait_size, bp_buffered>>
       ELSE /\ bp_buffered' = ReadablePush(bp_buffered, len, BpFrameMax).buffered
            /\ bp_wait_size' = bp_wait_size - len
            /\ bp_current' = IF bp_wait_size - len = 0 THEN "done" ELSE "body"
            /\ UNCHANGED bp_error
    /\ UNCHANGED bp_read
    /\ UNCHANGED notBp

\* the application reads n bytes from the body readable
BpRead(n) ==
    /\ bp_current # "none"
    /\ n <= bp_buffered
    /\ bp_buffered' = bp_buffered - n
    /\ bp_read' = bp_read + n
    /\ UNCHANGED <<bp_current, bp_wait_size, bp_error>>
    /\ UNCHANGED notBp

BpIdle ==
    /\ bp_current = "none"
    /\ bp_wait_size = 0
    /\ bp_buffered = 0
    /\ bp_read = 0
    /\ bp_error = "none"

BpNext ==
    \/ \E body_size \in 1..BpMaxBody : BpHeader(body_size)
    \/ \E len \in 1..BpFrameMax : BpBody(len)
    \/ \E n \in 1..BpMaxBody : BpRead(n)

(***************************************************************************)
(* CommandBase.execute: every call of a queue or exchange helper gets a    *)
(* connection of its own from _get_connection, opens a channel, runs the   *)
(* command, then closes the channel and the connection.                    *)
(***************************************************************************)
\* command calls in flight
MaxCommands == 3

CmStep(c, stage, outcome, channel, socket) ==
    /\ cm_stage' = [cm_stage EXCEPT ![c] = stage]
    /\ cm_outcome' = [cm_outcome EXCEPT ![c] = outcome]
    /\ cm_channel' = [cm_channel EXCEPT ![c] = channel]
    /\ cm_socket' = [cm_socket EXCEPT ![c] = socket]
    /\ UNCHANGED notCm

\* execute() is called: await this._get_connection()
CmExecute(c) ==
    /\ cm_stage[c] = "idle"
    /\ CmStep(c, "connect", "none", "none", "none")

\* _connect settles: with an opened connection, and execute goes on with
\* channel_open; or open() failed, _connect destroyed the connection and
\* execute rejects
CmConnect(c, ok) ==
    /\ cm_stage[c] = "connect"
    /\ IF ok THEN CmStep(c, "channel_open", "none", "none", "open")
       ELSE CmStep(c, "settled", "error", "none", "destroyed")

\* channel_open settles: with a channel, and the command runs; or it rejects
\* (connection blocked, channel limit) and execute rejects
CmChannelOpen(c, ok) ==
    /\ cm_stage[c] = "channel_open"
    /\ IF ok THEN CmStep(c, "command", "none", "open", cm_socket[c])
       ELSE CmStep(c, "settled", "error", "none", cm_socket[c])

\* the command settles: the broker answered, and execute goes on with
\* channel.close(); or the broker closed the channel (404), whose handler
\* destroys the channel and so rejects the call_api of the command, and
\* execute rejects
CmCommand(c, ok) ==
    /\ cm_stage[c] = "command"
    /\ IF ok THEN CmStep(c, "channel_close", "none", "open", cm_socket[c])
       ELSE CmStep(c, "settled", "error", "destroyed", cm_socket[c])

\* channel.close_ok arrives: close() destroys the channel, and execute goes
\* on with connection.close()
CmChannelClosed(c) ==
    /\ cm_stage[c] = "channel_close"
    /\ CmStep(c, "connection_close", "none", "destroyed", cm_socket[c])

\* connection.close_ok arrives: close() destroys the connection and its
\* socket, and execute returns the result
CmConnectionClosed(c) ==
    /\ cm_stage[c] = "connection_close"
    /\ CmStep(c, "settled", "result", cm_channel[c], "destroyed")

\* after a channel.close of the broker the destroy of the handler wrote a
\* channel.close of the client; what the broker answers finds no channel
\* and the demuxer destroys the connection
CmUnknownChannel(c) ==
    /\ cm_stage[c] = "settled"
    /\ cm_channel[c] = "destroyed"
    /\ cm_socket[c] = "open"
    /\ CmStep(c, "settled", cm_outcome[c], "destroyed", "destroyed")

CmIdle ==
    /\ cm_stage = [c \in 1..MaxCommands |-> "idle"]
    /\ cm_outcome = [c \in 1..MaxCommands |-> "none"]
    /\ cm_channel = [c \in 1..MaxCommands |-> "none"]
    /\ cm_socket = [c \in 1..MaxCommands |-> "none"]

CmNext ==
    \E c \in 1..MaxCommands :
        \/ CmExecute(c)
        \/ \E ok \in BOOLEAN : CmConnect(c, ok)
        \/ \E ok \in BOOLEAN : CmChannelOpen(c, ok)
        \/ \E ok \in BOOLEAN : CmCommand(c, ok)
        \/ CmChannelClosed(c)
        \/ CmConnectionClosed(c)
        \/ CmUnknownChannel(c)

\* every part starts idle
Init == ConnInit /\ ChanIdle /\ DecIdle /\ CsIdle /\ PbIdle /\ AckIdle /\ HbIdle /\ CdIdle /\ E2eIdle /\ FwIdle /\ CtIdle /\ OpIdle /\ UsIdle /\ TgIdle /\ BpIdle /\ CmIdle /\ pb_hwm = 1

\* the demuxer of an open connection with channel 1 open
InitDecode ==
    /\ channels = <<[open_ok |-> TRUE]>>
    /\ opened = TRUE
    /\ blocked = FALSE
    /\ destroyed = FALSE
    /\ open_calls = 0
    /\ open_result = NoOpen
    /\ channel_max = ChannelMax
    /\ ChanIdle
    /\ DecIdle
    /\ CsIdle
    /\ PbIdle
    /\ AckIdle
    /\ HbIdle
    /\ CdIdle
    /\ E2eIdle
    /\ FwIdle
    /\ CtIdle
    /\ OpIdle
    /\ UsIdle
    /\ TgIdle
    /\ BpIdle
    /\ CmIdle
    /\ pb_hwm = 1

SpecDecode == InitDecode /\ [][DecNext]_vars

\* a publish stream created with any highWaterMark
InitPublish ==
    /\ ConnInit
    /\ ChanIdle
    /\ DecIdle
    /\ CsIdle
    /\ PbIdle
    /\ AckIdle
    /\ HbIdle
    /\ CdIdle
    /\ E2eIdle
    /\ FwIdle
    /\ CtIdle
    /\ OpIdle
    /\ UsIdle
    /\ TgIdle
    /\ BpIdle
    /\ CmIdle
    /\ pb_hwm \in 1..MaxHwm

SpecPublish == InitPublish /\ [][PbNext]_vars

SpecConsume == Init /\ [][CsNext]_vars

SpecAck == Init /\ [][AckNext]_vars

\* an open connection at the end of open(): start_check_heartbeat has run if
\* options.heartbeat is not 0
InitHeartbeat ==
    /\ channels = <<>>
    /\ opened = TRUE
    /\ blocked = FALSE
    /\ destroyed = FALSE
    /\ open_calls = 0
    /\ open_result = NoOpen
    /\ channel_max = ChannelMax
    /\ ChanIdle
    /\ DecIdle
    /\ CsIdle
    /\ PbIdle
    /\ pb_hwm = 1
    /\ AckIdle
    /\ CdIdle
    /\ E2eIdle
    /\ FwIdle
    /\ CtIdle
    /\ OpIdle
    /\ UsIdle
    /\ TgIdle
    /\ BpIdle
    /\ CmIdle
    /\ hb_H \in 0..MaxHb
    /\ hb_now = 0
    /\ hb_heartbeat = 0
    /\ hb_check_at = (IF hb_H # 0 THEN HB_MOF_MAX ELSE -1)
    /\ hb_checks = 0
    /\ hb_last_chunk = 0
    /\ hb_seen_hb = FALSE
    /\ hb_destroyed = NotExpired

SpecHeartbeat == InitHeartbeat /\ [][HbNext]_vars

\* the interval callback runs when it is due, and time passes
SpecHeartbeatLive ==
    InitHeartbeat /\ [][HbNext]_vars /\ WF_vars(CheckHeartbeat) /\ WF_vars(HbClock)

\* a connection before open() has finished, with no channel; channel_max is
\* what the tune negotiation of open() will leave in options.channel_max
InitConnection ==
    /\ channels = <<>>
    /\ opened = FALSE
    /\ blocked = FALSE
    /\ destroyed = FALSE
    /\ open_calls = 0
    /\ open_result = NoOpen
    /\ channel_max \in {SmallChannelMax, ChannelMax}
    /\ ChanIdle
    /\ DecIdle
    /\ CsIdle
    /\ PbIdle
    /\ pb_hwm = 1
    /\ AckIdle
    /\ HbIdle
    /\ CdIdle
    /\ E2eIdle
    /\ FwIdle
    /\ CtIdle
    /\ OpIdle
    /\ UsIdle
    /\ TgIdle
    /\ BpIdle
    /\ CmIdle

SpecEndToEnd == Init /\ [][E2eNext]_vars

SpecFrameWrite == Init /\ [][FwNext]_vars

SpecConnectTimeout == Init /\ [][CtNext]_vars

SpecOpen == Init /\ [][OpNext]_vars

SpecCommand == Init /\ [][CmNext]_vars

SpecBodyReadable == Init /\ [][BpNext]_vars

SpecConsumerTag == Init /\ [][TgNext]_vars

SpecConnection == InitConnection /\ [][ConnNext]_vars

\* the connection is open with CdChildren child channels and a negotiated
\* heartbeat, so both heartbeat timers are set
InitConnDestroy ==
    /\ ConnInit
    /\ ChanIdle
    /\ DecIdle
    /\ CsIdle
    /\ PbIdle
    /\ pb_hwm = 1
    /\ AckIdle
    /\ HbIdle
    /\ E2eIdle
    /\ FwIdle
    /\ CtIdle
    /\ OpIdle
    /\ UsIdle
    /\ TgIdle
    /\ BpIdle
    /\ CmIdle
    /\ cd_channels = 1..CdChildren
    /\ cd_destroyed = [c \in 0..CdChildren |-> FALSE]
    /\ cd_error = [c \in 0..CdChildren |-> NotDestroyed]
    /\ cd_waiters = <<>>
    /\ cd_timers = {"_to_send_hb", "_interval_ck_hb"}
    /\ cd_socket = "open"
    /\ cd_wire = <<>>
    /\ cd_log = <<>>
    /\ cd_closing = {}
    /\ cd_exited = FALSE
    /\ cd_closed = [c \in 0..CdChildren |-> FALSE]

SpecConnDestroy == InitConnDestroy /\ [][CdNext]_vars

SpecChannelClose == InitConnDestroy /\ [][CdCloseNext]_vars

\* requests, replies and destroys; the nextTick callbacks do run, and the
\* broker answers what it can
SpecCallDestroy ==
    /\ InitConnDestroy
    /\ [][CdCallNext]_vars
    /\ WF_vars(CdRegisterTick)
    /\ \A i \in 1..(MaxCdCalls + CdChildren + 1) : WF_vars(CdReply(i))

SpecUnsubscribe == InitConnDestroy /\ [][UsNext]_vars

\* a child channel of an open connection
InitChannel ==
    /\ channels = <<[open_ok |-> TRUE]>>
    /\ opened = TRUE
    /\ blocked = FALSE
    /\ destroyed = FALSE
    /\ open_calls = 0
    /\ open_result = NoOpen
    /\ channel_max = ChannelMax
    /\ ChanIdle
    /\ DecIdle
    /\ CsIdle
    /\ PbIdle
    /\ pb_hwm = 1
    /\ AckIdle
    /\ HbIdle
    /\ CdIdle
    /\ E2eIdle
    /\ FwIdle
    /\ CtIdle
    /\ OpIdle
    /\ UsIdle
    /\ TgIdle
    /\ BpIdle
    /\ CmIdle

SpecChannel == InitChannel /\ [][ChanNext]_vars

\* C1: channel_open never assigns an id that is currently a key of `channels`,
\* and every assigned id lies in 1..channel_max.
C1_NoOverwrite ==
    open_result.outcome = "assigned" => (~open_result.was_key /\ open_result.in_range)

\* C2: on a channel that is not destroyed, a reply for a method id on which
\* waiters are pending resolves one of them, and it is the one registered
\* earliest (waiters registered within the same millisecond included).
C2_FifoWaiters ==
    (routed.route # "drop" /\ routed.pending > 0) =>
        /\ routed.route = "waiter"
        /\ routed.reg = routed.oldest

\* two waiters registered in the same millisecond were pending on the id of a
\* reply, and the reply resolved one of them
C2_Witness ==
    /\ routed.route = "waiter"
    /\ routed.pending >= 2
    /\ routed.same_ms

\* C3: once send() of a call has started, its waiter is in the callback list of
\* every expected reply id until it settles; and a reply that is dispatched on
\* the live channel while such a call waits for its id resolves a waiter: it is
\* never routed to a handler or to the fatal 'Handler not found' path.
C3_RegisteredBeforeSend ==
    /\ \A w \in 1..Len(waiters) :
          (waiters[w].state = "pending" /\ waiters[w].sent) =>
              \A i \in 1..Len(waiters[w].responses) :
                  w \in Range(request_callbacks[waiters[w].responses[i]])
    /\ routed.expected => routed.route \in {"waiter", "drop"}
    /\ (routed.expected /\ routed.route = "drop") => ch_destroyed

\* a reply for the second expected id of a call arrived after its send() and
\* resolved a waiter
C3_Witness ==
    /\ routed.route = "waiter"
    /\ routed.expected
    /\ routed.method_id = BASIC_ACK
    /\ \E w \in 1..Len(waiters) :
          waiters[w].state = "pending" /\ waiters[w].sent /\ Len(waiters[w].responses) = 2

\* C4: for a delivery whose header declares body_size N > 0, the body
\* readable holds the concatenation of the body frames in wire order and is
\* ended exactly when their lengths sum to N; a frame that makes the sum exceed
\* N appends nothing and the channel is destroyed with unexpected_frame.
C4_ContentAssembly ==
    \A i \in DOMAIN cs_messages :
        LET m == cs_messages[i]
            sum == Len(Flatten(m.wire))
        IN  m.body_size > 0 =>
                /\ sum <= m.body_size =>
                        /\ m.body = Flatten(m.wire)
                        /\ m.ended <=> (sum = m.body_size)
                /\ sum > m.body_size =>
                        /\ m.body = Flatten(SubSeq(m.wire, 1, Len(m.wire) - 1))
                        /\ ~m.ended
                        /\ cs_destroyed = "unexpected_frame"

C4_Witness ==
    /\ \E i \in DOMAIN cs_messages :
            /\ cs_messages[i].ended
            /\ cs_messages[i].body_size = 3
            /\ Len(cs_messages[i].wire) = 2
    /\ \E i \in DOMAIN cs_messages :
            /\ Len(Flatten(cs_messages[i].wire)) > cs_messages[i].body_size
            /\ cs_messages[i].body # <<>>

\* C5: when every byte of a stream of well-formed frames has been taken in,
\* however it was cut into chunks, the frames dispatched are those dispatched
\* when the whole stream arrives in one chunk.
C5_SameFramesAsOneChunk ==
    (dec_wire = <<>> /\ dec_all # <<>> /\ dec_error = "none") =>
        dec_out = Writev("_init", <<>>, dec_all).out

\* C6: the content assembly accepts only deliver, one header, then body
\* frames up to the declared size, repeated: a deliver while a message is in
\* progress, a header with no message in progress or a second header, a body
\* before the header or after the message completed raise unexpected_frame;
\* at most one message is in progress, _wait_size is never negative and is 0
\* whenever no message is in progress.
C6_SequenceEnforced ==
    /\ (cs_last.type = "deliver" /\ cs_last.before # "none") => cs_last.threw
    /\ (cs_last.type = "header" /\ cs_last.before # "deliver") => cs_last.threw
    /\ (cs_last.type = "body" /\ cs_last.before # "body") => cs_last.threw
    /\ cs_last.threw => (cs_error = "unexpected_frame" /\ cs_destroyed = "unexpected_frame")
    /\ (cs_last.type = "deliver" /\ cs_last.before = "none") => ~cs_last.threw
    /\ (cs_last.type = "header" /\ cs_last.before = "deliver") => ~cs_last.threw
    /\ Cardinality({i \in DOMAIN cs_messages :
                        cs_messages[i].has_body /\ ~cs_messages[i].ended}) <= 1
    /\ cs_wait_size >= 0
    /\ cs_current \in {"none", "deliver"} => cs_wait_size = 0
    /\ cs_current = "body" => cs_wait_size > 0

C6_Witness ==
    /\ cs_last.type = "body"
    /\ cs_last.before = "none"
    /\ cs_last.threw
    /\ Len(cs_messages) = 1
    /\ cs_messages[1].ended

\* C7: every published message, once sent, has on the wire exactly one
\* basic.publish frame (mandatory, not immediate), then exactly one content
\* header frame carrying its properties and body_size, then body frames whose
\* payloads concatenate to its body.
C7_PublishHeaderBody ==
    \A i \in DOMAIN pb_msgs :
        pb_msgs[i].stage = "sent" =>
            LET fs == FramesOf(i)
            IN  /\ Len(fs) >= 2
                /\ fs[1].type = "publish" /\ fs[1].flag = 1
                /\ fs[2].type = "header"
                /\ fs[2].body_size = Len(pb_msgs[i].body)
                /\ fs[2].props = (IF pb_msgs[i].props = "set" THEN "set" ELSE "empty")
                /\ \A k \in 3..Len(fs) : fs[k].type = "body"
                /\ Payloads(fs) = pb_msgs[i].body

\* C8: every body frame the publisher writes has a payload of at most
\* frame_max bytes.
C8_BodyFrameAtMostFrameMax ==
    \A k \in DOMAIN pb_wire :
        pb_wire[k].type = "body" => Len(pb_wire[k].payload) <= FrameMax

\* C9: no frame of message k+1 is on the wire before a basic.ack or
\* basic.return for message k was received, and the frames of two messages do
\* not interleave.
C9_OneMessageAtATime ==
    /\ \A k \in DOMAIN pb_wire : pb_wire[k].msg > 1 => (pb_wire[k].msg - 1) \in pb_recv
    /\ \A k \in DOMAIN pb_wire : \A l \in DOMAIN pb_wire :
            k < l => pb_wire[k].msg <= pb_wire[l].msg

\* C10: the callback of a message is called at most once, only with the
\* broker's first answer to that message (basic.ack or basic.return), and it
\* has been called once that answer was handled.
C10_CallbackOncePerMessage ==
    \A i \in DOMAIN pb_msgs :
        /\ pb_msgs[i].calls <= 1
        /\ pb_msgs[i].calls = 1 =>
                /\ i <= Len(pb_answers)
                /\ pb_msgs[i].reply_tag = i
                /\ pb_msgs[i].outcome = pb_answers[i]
        /\ i \in pb_recv => pb_msgs[i].calls = 1

\* C11: the basic.ack the broker sends after the basic.return of a message
\* calls no publish callback: no callback is called with the basic.ack of a
\* returned message, and the callback of a returned message is called once.
C11_LateAckIgnored ==
    \A i \in DOMAIN pb_msgs :
        /\ (pb_msgs[i].calls >= 1 /\ pb_msgs[i].outcome = BASIC_ACK) =>
                pb_answers[pb_msgs[i].reply_tag] # BASIC_RETURN
        /\ (i <= Len(pb_answers) /\ pb_answers[i] = BASIC_RETURN) => pb_msgs[i].calls <= 1

\* C12: for each delivered message at most one acknowledgement frame is
\* written, that of the first call of ack() or nack(requeue) for it, with
\* multiple = false; later calls of either action write nothing.
C12_OneAckFrame ==
    LET FirstCall(tag) ==
            cs_ack_calls[CHOOSE k \in DOMAIN cs_ack_calls :
                            /\ cs_ack_calls[k].delivery_tag = tag
                            /\ \A l \in 1..(k - 1) : cs_ack_calls[l].delivery_tag # tag]
        called == {cs_ack_calls[k].delivery_tag : k \in DOMAIN cs_ack_calls}
    IN  /\ \A k \in DOMAIN cs_ack_frames : \A l \in DOMAIN cs_ack_frames :
                cs_ack_frames[k].delivery_tag = cs_ack_frames[l].delivery_tag => k = l
        /\ \A k \in DOMAIN cs_ack_frames :
                /\ cs_ack_frames[k].delivery_tag \in called
                /\ cs_ack_frames[k] = FirstCall(cs_ack_frames[k].delivery_tag)
                /\ cs_ack_frames[k].multiple = FALSE
        /\ cs_destroyed = "none" =>
                \A tag \in called : \E k \in DOMAIN cs_ack_frames : cs_ack_frames[k].delivery_tag = tag

C12_Witness ==
    /\ Len(cs_ack_calls) = 3
    /\ cs_ack_calls[1].delivery_tag = cs_ack_calls[2].delivery_tag
    /\ cs_ack_calls[1].method # cs_ack_calls[2].method
    /\ Len(cs_ack_frames) = 2

\* C13: with a client heartbeat H > 0, once no inbound bytes arrived for
\* longer than H*1000 ms plus the margin of error and a check is still to
\* come, the connection is eventually destroyed with connection_forced
\* 'Heartbeat timeout expired', unless bytes arrive before that check.
C13_SilenceDestroys ==
    (/\ hb_H > 0
     /\ hb_destroyed = NotExpired
     /\ hb_now - hb_last_chunk > MaxDelay(hb_H)
     /\ hb_check_at <= MaxClock)
        ~> (\/ /\ hb_destroyed.reply_code = "connection_forced"
               /\ hb_destroyed.text = "Heartbeat timeout expired"
            \/ hb_now - hb_last_chunk <= MaxDelay(hb_H))

C13_Witness ==
    /\ hb_H > 0
    /\ hb_destroyed.text = "Heartbeat timeout expired"
    /\ hb_destroyed.silence > MaxDelay(hb_H)
    /\ hb_checks >= 2

\* C14: every inbound chunk refreshes the timestamp of the connection: the
\* heartbeat check destroys the connection only after a window longer than
\* H*1000 ms plus margin without any inbound chunk, heartbeat frame or not.
C14_AnyTrafficKeepsAlive ==
    /\ hb_heartbeat = hb_last_chunk
    /\ hb_destroyed # NotExpired => hb_destroyed.silence > MaxDelay(hb_H)

C14_Witness ==
    /\ hb_H > 0
    /\ hb_destroyed = NotExpired
    /\ ~hb_seen_hb
    /\ hb_checks >= 3
    /\ hb_last_chunk > 0

\* C15: destroy(error) on a channel rejects every waiter registered at that
\* moment with that error, or with connection_forced when no error is given;
\* afterwards the channel is marked destroyed and is not a key of `channels`.
C15_DestroyRejectsAll ==
    [][\A error \in Errors :
        Destroy(error) =>
            LET hit == UNION {Range(request_callbacks[m]) : m \in Methods}
            IN  /\ \A w \in hit : waiters'[w].state = "rejected"
                /\ hit # {} => rejected_with' =
                        (IF error = "none" THEN "connection_forced" ELSE error)
                /\ \A m \in Methods : request_callbacks'[m] = <<>>
                /\ ch_destroyed'
                /\ ThisChannel \notin DOMAIN channels']_vars

C15_Witness ==
    /\ ch_destroyed
    /\ ThisChannel \notin DOMAIN channels
    /\ rejected_with = "soft_error"
    /\ Cardinality({w \in 1..Len(waiters) : waiters[w].state = "rejected"}) >= 2

\* the position of the first step of that kind in the log of a destroy (0: none)
CdLogIndex(log, step) ==
    IF \E i \in DOMAIN log : log[i].step = step
    THEN CHOOSE i \in DOMAIN log : log[i].step = step /\ \A j \in 1..(i - 1) : log[j].step # step
    ELSE 0

\* what holds after a step that ran Connection.destroy(error)
CdDestroyedWith(error) ==
    /\ cd_timers' = {}
    /\ cd_channels' = {}
    /\ \A ch \in cd_channels : cd_destroyed'[ch] /\ cd_error'[ch] = error
    /\ \A i \in DOMAIN cd_waiters :
          (cd_waiters[i].state = "registered"
           /\ (cd_waiters[i].channel = 0 \/ cd_waiters[i].channel \in cd_channels))
          => /\ cd_waiters'[i].state = "rejected"
             /\ cd_waiters'[i].error = CdRejectError(error)
    /\ cd_destroyed'[0]
    /\ cd_socket' = "destroyed"
    /\ \A ch \in cd_channels :
          \E i \in DOMAIN cd_log' : cd_log'[i] = CdStep("channel", ch)
    /\ \A i \in DOMAIN cd_log' :
          cd_log'[i].step \in {"timers", "channel", "super", "destroyed"}
          => \A j \in DOMAIN cd_log' : cd_log'[j].step = "socket" => i < j

\* C16: after Connection.destroy(error) both heartbeat timers are cancelled,
\* every child channel of `channels` was destroyed with the same error and
\* `channels` is empty, every registered waiter of the connection and of those
\* channels is rejected with that error (with the connection_forced default
\* when no error is given), `destroyed` is true, the socket is destroyed, and
\* the socket is destroyed after the timers, the channels and the flag.
C16_ConnectionDestroy ==
    [][/\ \A error \in CdErrors : CdDestroy(error) => CdDestroyedWith(error)
       /\ \A c \in cd_closing :
             (c.channel = 0 /\ CdCloseDestroy(c)) => CdDestroyedWith(CloseError(c.args))]_vars

\* a destroy of the open connection with an error has rejected a waiter of the
\* connection and a waiter of a child, and destroyed both children
C16_Witness ==
    /\ CdLogIndex(cd_log, "socket") # 0
    /\ cd_error[0] \in CdErrors \ {NoError}
    /\ \A ch \in 1..CdChildren : cd_destroyed[ch] /\ cd_error[ch] = cd_error[0]
    /\ \E i, j \in DOMAIN cd_waiters :
          /\ cd_waiters[i].channel = 0
          /\ cd_waiters[j].channel # 0
          /\ cd_waiters[i].state = "rejected" /\ cd_waiters[i].error = cd_error[0]
          /\ cd_waiters[j].state = "rejected" /\ cd_waiters[j].error = cd_error[0]
    /\ cd_timers = {}
    /\ cd_channels = {}


\* the error carries the reply_code, reply_text and method_id of the close
CdCarries(error, args) ==
    /\ error.reply_code = args.reply_code
    /\ error.reply_text = args.reply_text
    /\ error.method_id = args.method_id

\* the close_ok frame that answers a close received on that channel
CdCloseOk(ch) ==
    CdFrame(ch, IF ch = 0 THEN "connection_close_ok" ELSE "channel_close_ok", NoArgs)

\* C17: when the handler of a broker-sent channel.close (connection.close)
\* destroys the channel (the connection), the close_ok frame is already
\* written, and every waiter registered on that channel (on the connection
\* and on all channels of `channels`) is rejected with an error that carries
\* the reply_code, reply_text and method_id of the broker's close.
C17_BrokerCloseRejects ==
    [][\A c \in cd_closing :
          CdCloseDestroy(c)
          => /\ \E k \in DOMAIN cd_wire : cd_wire[k] = CdCloseOk(c.channel)
             /\ \A i \in DOMAIN cd_waiters :
                   (/\ cd_waiters[i].state = "registered"
                    /\ \/ cd_waiters[i].channel = c.channel
                       \/ c.channel = 0 /\ cd_waiters[i].channel \in cd_channels)
                   => /\ cd_waiters'[i].state = "rejected"
                      /\ CdCarries(cd_waiters'[i].error, c.args)]_vars

\* a channel.close has rejected a request of its channel and a later
\* connection.close has rejected a request of the connection, each with the
\* broker's arguments, after the close_ok frames were written
C17_Witness ==
    \E i, j \in DOMAIN cd_waiters :
        /\ cd_waiters[i].channel # 0 /\ cd_waiters[j].channel = 0
        /\ cd_waiters[i].kind = "api" /\ cd_waiters[j].kind = "api"
        /\ cd_waiters[i].state = "rejected" /\ cd_waiters[j].state = "rejected"
        /\ \E a \in BrokerCloseArgs(cd_waiters[i].channel) : CdCarries(cd_waiters[i].error, a)
        /\ \E a \in BrokerCloseArgs(0) : CdCarries(cd_waiters[j].error, a)
        /\ \E k, l \in DOMAIN cd_wire :
              /\ cd_wire[k] = CdCloseOk(cd_waiters[i].channel)
              /\ cd_wire[l] = CdCloseOk(0)


RECURSIVE MalformedAt(_, _, _)
\* the first complete frame of the buffer, counted from k at offset start,
\* that has a wrong frame end ("end"), an unknown frame type ("type"), a
\* channel that is not in `channels` ("channel") or a method id without a
\* decoder ("method"), when every frame before it is well formed and is
\* handled without destroying the connection; kind "none" if there is none
MalformedAt(buffer, start, k) ==
    LET type    == buffer[start + 1]
        channel == U16(buffer, start + 1)
        size    == U32(buffer, start + 3)
        off     == start + 7
        next    == off + size + 1
        found(kind) == [kind |-> kind, index |-> k]
    IN  IF Len(buffer) - start < EMPTY_FRAME_SIZE THEN found("none")
        ELSE IF next > Len(buffer) THEN found("none")
        ELSE IF buffer[next] # FRAME_END THEN found("end")
        ELSE IF channel # 0 /\ channel \notin DOMAIN channels THEN found("channel")
        ELSE IF type \notin {FRAME_METHOD, FRAME_HEADER, FRAME_BODY, FRAME_HEARTBEAT}
        THEN found("type")
        ELSE IF type = FRAME_METHOD /\ (size < 4 \/ DecoderArgs(U32(buffer, off)) < 0)
        THEN found("method")
        ELSE IF (type = FRAME_HEARTBEAT) # (channel = 0) THEN found("none")
        ELSE MalformedAt(buffer, next, k + 1)

\* C18: when the buffer the demuxer decodes holds a complete frame with a
\* frame end other than 0xCE, an unknown frame type, a channel id that is not
\* in `channels` or a method id without a decoder, no handler is invoked for
\* that frame (only the frames before it are dispatched), the connection is
\* destroyed and `channels` is emptied; for a method id without a decoder
\* the error is a frame_error.
C18_MalformedFrameDestroys ==
    [][\A n \in 1..(MaxFrames * 12) :
          SocketChunk(n)
          => LET buffer == dec_cache \o SubSeq(dec_wire, 1, n)
                 bad == MalformedAt(buffer, 0, 1)
             IN  bad.kind # "none"
                 => /\ dec_error' # "none"
                    /\ destroyed'
                    /\ channels' = <<>>
                    /\ Len(dec_out') < Len(dec_out) + bad.index
                    /\ bad.kind = "method" => dec_error' = "frame_error"]_vars

\* a buffer with a good frame followed by a method frame without a decoder
\* was decoded: the good frame was dispatched, the other was not, and the
\* connection is destroyed with a frame_error
C18_Witness ==
    /\ dec_error = "frame_error"
    /\ destroyed
    /\ channels = <<>>
    /\ dec_all = Frame(FRAME_BODY, 1, <<7>>) \o Frame(FRAME_METHOD, 1, Bytes32(1))
    /\ dec_wire = <<>>
    /\ Len(dec_out) = 1


\* the lowest id of 1..channel_max that is not a key of the map
LowestUnusedId(chs) ==
    CHOOSE i \in 1..channel_max :
        i \notin DOMAIN chs /\ \A j \in 1..(i - 1) : j \in DOMAIN chs

\* C19: whenever channel_open assigns an id, it is the lowest id of
\* 1..channel_max that is not a key of `channels` at that moment.
C19_LowestUnusedId ==
    [][(ChannelOpenTick /\ open_result'.outcome = "assigned")
       => ChannelIdFor(channels) = LowestUnusedId(channels)]_vars


\* C20: the callback of channel_open rejects with 'Connection inactive' when
\* the connection is not opened, is destroyed or is blocked, and with 'Channel
\* max limit exceeded' when `channels` holds channel_max channels; a rejected
\* call leaves `channels` as it was and writes no channel.open frame; in every
\* other case, so also after connection.unblocked, it assigns a channel.
\* `blocked` is set by connection.blocked, cleared by connection.unblocked
\* and changed by nothing else.
C20_OpenRejected ==
    [][/\ ChannelOpenTick
          => /\ (~opened \/ destroyed \/ blocked)
                => /\ open_result'.outcome = "inactive"
                   /\ channels' = channels
                   /\ ~open_result'.frame
             /\ (opened /\ ~destroyed /\ ~blocked
                 /\ Cardinality(DOMAIN channels) = channel_max)
                => /\ open_result'.outcome = "limit"
                   /\ channels' = channels
                   /\ ~open_result'.frame
             /\ (opened /\ ~destroyed /\ ~blocked
                 /\ Cardinality(DOMAIN channels) # channel_max)
                => /\ open_result'.outcome = "assigned"
                   /\ open_result'.frame
       /\ ConnectionBlocked => blocked'
       /\ ConnectionUnblocked => ~blocked'
       /\ blocked' # blocked => (ConnectionBlocked \/ ConnectionUnblocked)]_vars

\* a channel_open was rejected because channel_max channels are open on an
\* opened connection that is neither blocked nor destroyed
C20_Witness ==
    /\ open_result.outcome = "limit"
    /\ opened /\ ~destroyed /\ ~blocked
    /\ Cardinality(DOMAIN channels) = channel_max


\* nothing of the published message is left to be written, read or handled
E2eQuiet ==
    /\ e2e_stage = "sent"
    /\ e2e_up = <<>>
    /\ e2e_down = <<>>

\* C21: once every frame of a message published with properties P and a body
\* of N bytes was written by the publisher, read by the broker and handled by
\* the consumer, the consumer was given one message with properties P whose
\* body stream holds the published bytes in order and has ended; and after
\* ack() and unsubscribe() the consumer stream has ended without error.
C21_RoundTrip ==
    /\ E2eQuiet
       => /\ Len(e2e_delivered) = 1
          /\ e2e_delivered[1].properties = e2e_input.props
          /\ e2e_delivered[1].body = Flatten(PublishChunk(e2e_input).chunks)
          /\ e2e_delivered[1].ended
    /\ e2e_stream # "error"
    /\ e2e_acks > 0 => e2e_stream = "ended"

\* the kind of frame a written frame's first byte tells
FwKindOf(bytes) ==
    IF bytes[1] = FRAME_METHOD THEN "method"
    ELSE IF bytes[1] = FRAME_HEADER THEN "header"
    ELSE IF bytes[1] = FRAME_BODY THEN "body"
    ELSE IF bytes[1] = FRAME_HEARTBEAT THEN "heartbeat"
    ELSE "unknown"

\* C22 (amended): every frame the client writes (method, header, body,
\* heartbeat) is exactly 7 + payload_size + 1 = EMPTY_FRAME_SIZE + payload_size
\* bytes long, ends with 0xCE, and its payload_size field equals the number of
\* bytes between the 7-byte frame header and the frame end, for statically
\* and dynamically sized writers alike.
C22_FrameEnvelope ==
    \A i \in 1..Len(fw_wire) :
        LET bytes == fw_wire[i].bytes
        IN /\ Len(bytes) >= EMPTY_FRAME_SIZE
           /\ FwKindOf(bytes) = fw_wire[i].kind
           /\ Len(bytes) = 7 + U32(bytes, 3) + 1
           /\ bytes[Len(bytes)] = FRAME_END
           /\ U32(bytes, 3) = Len(SubSeq(bytes, 8, Len(bytes) - 1))

\* C22 as stated: every frame the client writes is exactly
\* 8 + payload_size + 1 bytes long, ends with 0xCE, and its payload_size
\* field equals the actual payload length.
C22_EnvelopeNineOctets ==
    \A i \in 1..Len(fw_wire) :
        LET bytes == fw_wire[i].bytes
        IN /\ Len(bytes) = 8 + U32(bytes, 3) + 1
           /\ bytes[Len(bytes)] = FRAME_END

C22_Witness ==
    /\ \E i \in 1..Len(fw_wire) :
          fw_wire[i].kind = "method" /\ ~fw_wire[i].dynamic /\ U32(fw_wire[i].bytes, 3) > 4
    /\ \E i \in 1..Len(fw_wire) :
          fw_wire[i].kind = "header" /\ fw_wire[i].dynamic /\ U32(fw_wire[i].bytes, 3) > 14
    /\ \E i \in 1..Len(fw_wire) :
          fw_wire[i].kind = "body" /\ U32(fw_wire[i].bytes, 3) = 2
    /\ \E i \in 1..Len(fw_wire) :
          fw_wire[i].kind = "heartbeat" /\ U32(fw_wire[i].bytes, 3) = 0

\* the frames written for one send
FwFramesOf(call) == SelectSeq(fw_wire, LAMBDA f : f.call = call)

\* a name the broker's grammar refuses: longer than 127 characters, or with a
\* character outside a-z A-Z 0-9 - _ . :
FwBadName(name) ==
    \/ Len(name) > 127
    \/ \E i \in 1..Len(name) :
          ~ \/ name[i] \in 97..122
            \/ name[i] \in 65..90
            \/ name[i] \in 48..57
            \/ name[i] \in {45, 95, 46, 58}

\* C23: a method whose exchange or queue name is longer than 127 characters
\* or has a character outside [a-zA-Z0-9-_.:] is rejected at encode time: the
\* send fails with an error and no frame of that send (method, header or
\* body) is written to the socket.
C23_NameRejected ==
    \A call \in 1..Len(fw_calls) :
        (fw_calls[call].api \in {"basic_publish", "queue_declare"} /\ FwBadName(fw_calls[call].name))
            => /\ fw_calls[call].error # "none"
               /\ FwFramesOf(call) = <<>>

C23_Witness ==
    /\ Len(fw_calls) = 2
    /\ fw_calls[1].api = "basic_publish" /\ Len(fw_calls[1].name) = 128
    /\ fw_calls[1].error = "Length should not be > 127"
    /\ fw_calls[2].api = "queue_declare" /\ fw_calls[2].name = <<97, 47>>
    /\ fw_calls[2].error = "Invalid format"
    /\ fw_wire = <<>>

\* REPLY_SOFT_ERROR: the reply codes of channel-level errors
REPLY_SOFT_ERROR == {311, 312, 313, 403, 404, 405, 406}

\* C24: when one channel is destroyed because of a soft error, received from
\* the broker as channel.close or raised locally, only that channel is
\* destroyed: the connection stays not destroyed with its socket open, and
\* every other channel stays in `channels` unless it was closed or destroyed
\* with a soft error itself, also after the broker's later frames for the
\* destroyed channel (channel.close-ok) arrive.
C24_SoftErrorKeepsConnection ==
    (\E ch \in 1..CdChildren :
        cd_destroyed[ch] /\ cd_error[ch].reply_code \in REPLY_SOFT_ERROR)
    => /\ ~cd_destroyed[0]
       /\ cd_socket = "open"
       /\ \A other \in 1..CdChildren :
             \/ other \in cd_channels
             \/ cd_error[other] = NoError
             \/ cd_error[other].reply_code \in REPLY_SOFT_ERROR

\* C25: when the connection is destroyed with a hard error while its socket
\* is open and no close handshake has completed, a connection.close frame
\* carrying ErrorToClose(error) has been written to the socket by the time
\* the socket is destroyed and the deferred sends have run.
C25_CloseBeforeSocketDestroy ==
    ( /\ cd_socket = "destroyed"
      /\ CdNoTicks
      /\ cd_error[0].reply_code = CONNECTION_FORCED
      /\ \A k \in 1..Len(cd_wire) : cd_wire[k].method # "connection_close_ok" )
    => \E k \in 1..Len(cd_wire) :
          cd_wire[k] = CdFrame(0, "connection_close", ErrorToClose(cd_error[0]))

\* the deferred registration that runs next is the one of a close() on ch
CdCloseTick(ch) ==
    \E i \in DOMAIN cd_waiters :
        /\ cd_waiters[i].state = "tick"
        /\ \A j \in 1..(i - 1) : cd_waiters[j].state # "tick"
        /\ cd_waiters[i].kind = "user_close"
        /\ cd_waiters[i].channel = ch

\* the channel.close of a close(): no error, reply code 200
CdCloseSuccess(ch) ==
    CdFrame(ch, "channel_close", [method_id |-> 0, reply_code |-> REPLY_SUCCESS, reply_text |-> "buy!"])

\* C29: close() on a channel that is closed or destroyed writes no frame (and
\* defers none); the send of a close() on any other channel writes exactly
\* one channel.close carrying reply code 200; `closed` becomes true only when
\* the channel.close_ok is handled, and a closed channel is destroyed and
\* removed from `channels`.
C29_Close ==
    /\ [][\A ch \in 1..CdChildren :
            /\ (CdClose(ch) /\ (cd_destroyed[ch] \/ cd_closed[ch]))
                   => (cd_wire' = cd_wire /\ Len(cd_waiters') = Len(cd_waiters))
            /\ (CdRegisterTick /\ CdCloseTick(ch) /\ cd_socket = "open")
                   => cd_wire' = Append(cd_wire, CdCloseSuccess(ch))
            /\ (cd_closed'[ch] /\ ~cd_closed[ch])
                   => /\ \E i \in DOMAIN cd_waiters :
                            /\ cd_waiters[i].channel = ch
                            /\ cd_waiters[i].state = "registered"
                            /\ cd_waiters'[i].state = "resolved"
                      /\ cd_wire' = cd_wire]_vars
    /\ [](\A ch \in 1..CdChildren : cd_closed[ch] => (cd_destroyed[ch] /\ ch \notin cd_channels))

\* a close() went through: channel.close with reply code 200 written, close_ok
\* handled, the channel closed, destroyed and removed, the other channel and
\* the connection alive
C29_Witness ==
    \E ch \in 1..CdChildren :
        /\ cd_closed[ch] /\ cd_destroyed[ch] /\ ch \notin cd_channels
        /\ cd_wire = <<CdCloseSuccess(ch)>>
        /\ ~cd_destroyed[0]
        /\ cd_channels # {}

\* C26: the connection_timeout destroys the socket with a timeout error if
\* and only if the handshake has not completed within connection_timeout ms
\* of connecting: a connection whose handshake completed is never destroyed
\* by this timeout, and a handshake still incomplete after that time is
\* aborted even if some bytes were exchanged.
C26_ConnectionTimeout ==
    /\ ct_socket = "timeout" => ct_steps < HandshakeSteps
    /\ (ct_steps < HandshakeSteps /\ ct_now > ConnectionTimeout) => ct_socket = "timeout"

\* C27: a call_api waiter registered on several reply ids settles at most
\* once: a settled waiter never changes again; the arrival of one of its ids
\* resolves one pending waiter of that id with that method id; a settled
\* waiter is in the callback list of none of its ids, so a later arrival
\* does not find it; and when send() fails only that call is rejected, with
\* the error of send(), and removed, while the other waiters, their list
\* entries and the destroyed flag stay as they are.
C27_SettleOnce ==
    /\ [][/\ \A w \in 1..Len(waiters) :
                waiters[w].state \in {"resolved", "rejected"} => waiters'[w] = waiters[w]
          /\ (MethodTick /\ routed'.route = "waiter")
                => /\ routed'.method_id = Head(ticks).arg
                   /\ Cardinality({w \in 1..Len(waiters) :
                                      waiters'[w] # waiters[w]}) = 1
                   /\ \E w \in 1..Len(waiters) :
                         /\ waiters[w].state = "pending"
                         /\ Head(ticks).arg \in Range(waiters[w].responses)
                         /\ waiters'[w].state = "resolved"
          /\ \A w \in 1..Len(waiters) :
                SendFail(w)
                => /\ waiters'[w].state = "rejected"
                   /\ rejected_with' = "send_error"
                   /\ \A v \in 1..Len(waiters) : v # w => waiters'[v] = waiters[v]
                   /\ \A m \in Methods :
                         request_callbacks'[m] = SelectSeq(request_callbacks[m], LAMBDA x : x # w)
                   /\ ch_destroyed' = ch_destroyed]_vars
    /\ [](\A m \in Methods : \A k \in Range(request_callbacks[m]) : waiters[k].state = "pending")

\* a waiter was resolved, another call was rejected by its failing send, and a
\* later basic.ack found no waiter and went to the handler
C27_Witness ==
    /\ \E w \in 1..Len(waiters) : waiters[w].state = "resolved"
    /\ \E w \in 1..Len(waiters) : waiters[w].state = "rejected" /\ waiters[w].kind = "api"
    /\ rejected_with = "send_error"
    /\ routed.route = "handler" /\ routed.method_id = BASIC_ACK
    /\ ~ch_destroyed

\* C28: for every inbound method on a live channel exactly one of three things
\* happens: if a waiter is registered for its id, the oldest such waiter is
\* resolved and nothing else happens; otherwise, if a handler is registered
\* for its id (basic.ack on this channel), the handler runs and no waiter
\* changes; otherwise fatal is called ('Handler ... not found') and the process
\* exits.  A method dispatched to a destroyed channel resolves no waiter,
\* runs no handler and is not fatal.
C28_Dispatch ==
    [][MethodTick =>
        LET m == Head(ticks).arg
            keys == request_callbacks[m]
            changed == {w \in 1..Len(waiters) : waiters'[w] # waiters[w]}
        IN  /\ Len(waiters') = Len(waiters)
            /\ routed'.route \in {"drop", "waiter", "handler", "fatal"}
            /\ routed'.route = "drop" <=> ch_destroyed
            /\ routed'.route = "waiter" <=> (~ch_destroyed /\ keys # <<>>)
            /\ routed'.route = "handler" <=> (~ch_destroyed /\ keys = <<>> /\ m = BASIC_ACK)
            /\ routed'.route = "fatal" <=> (~ch_destroyed /\ keys = <<>> /\ m # BASIC_ACK)
            /\ exited' <=> routed'.route = "fatal"
            /\ IF routed'.route = "waiter"
               THEN \E w \in Range(keys) :
                       /\ changed = {w}
                       /\ waiters'[w].state = "resolved"
                       /\ \A k \in Range(keys) : waiters[w].reg_no <= waiters[k].reg_no
               ELSE changed = {} /\ request_callbacks' = request_callbacks]_vars

\* a reply resolved a waiter, and a later basic.return, for which there is
\* neither a waiter nor a handler, took the fatal path
C28_Witness ==
    /\ routed.route = "fatal"
    /\ routed.method_id = BASIC_RETURN
    /\ exited
    /\ \E w \in 1..Len(waiters) : waiters[w].state = "resolved"
    /\ \E w \in 1..Len(waiters) : waiters[w].state = "pending"

OpHandshake == <<"protocol_header", "start_ok", "tune_ok", "open">>

OpWritten(name) == \E i \in 1..Len(op_wire) : op_wire[i].frame = name

OpReceived(method_id) == \E i \in 1..Len(op_recv) : op_recv[i] = method_id

\* connection.secure was the answer to start-ok: any other connection.secure
\* finds no waiter and ends the process
OpSecureAnswered == OpReceived(CONNECTION_SECURE) /\ ~op_exited

\* C30: open() writes the protocol header, start-ok, tune-ok and
\* connection.open in that order (only the close-ok that answers a
\* connection.close of the broker may follow them); start-ok is written only
\* after connection.start was received, tune-ok and connection.open only
\* after connection.tune; opened is true only after connection.open-ok was
\* received and the four frames were written; when connection.secure answers
\* start-ok, open fails, neither tune-ok nor connection.open is written and
\* opened stays false.
C30_OpenHandshake ==
    /\ \A i \in 1..Len(op_wire) :
          \/ i <= Len(OpHandshake) /\ op_wire[i].frame = OpHandshake[i]
          \/ i = Len(op_wire) /\ op_wire[i].frame = "close_ok"
    /\ OpWritten("start_ok") => OpReceived(CONNECTION_START)
    /\ OpWritten("tune_ok") \/ OpWritten("open") => OpReceived(CONNECTION_TUNE)
    /\ op_opened => OpReceived(CONNECTION_OPEN_OK) /\ OpWritten("open")
    /\ OpSecureAnswered =>
          /\ op_stage = "failed"
          /\ op_error = "Unexpected connection.secure"
          /\ ~OpWritten("tune_ok")
          /\ ~OpWritten("open")
          /\ ~op_opened

\* one connection opened after the whole handshake, another one failed on
\* connection.secure: both are reachable, here the first
C30_Witness ==
    /\ op_opened
    /\ Len(op_wire) = 4
    /\ op_wire[3].channel_max = 10

C30_WitnessSecure ==
    /\ OpSecureAnswered
    /\ op_stage = "failed"
    /\ OpWritten("start_ok")


\* the tuning arithmetic of the protocol: the smaller value when the client
\* has one, else the value of the broker
Negotiated(client, server) == IF client # 0 THEN Min(client, server) ELSE server

\* open() takes a connection.tune in this step
OpTuneTaken == op_tune = <<>> /\ op_tune' # <<>>

\* the values open() computes from a connection.tune, for every pair of
\* client and broker values: what it stores in the options and hands to the
\* tune-ok encoder is the negotiated channel_max and frame_max and the
\* heartbeat of the client
C31_TuneArithmetic ==
    [][OpTuneTaken =>
          /\ op_options'.channel_max = Negotiated(op_options.channel_max, op_tune'[1].channel_max)
          /\ op_options'.frame_max = Negotiated(op_options.frame_max, op_tune'[1].frame_max)
          /\ op_tune_ok'[1].channel_max = op_options'.channel_max
          /\ op_tune_ok'[1].frame_max = op_options'.frame_max
          /\ op_tune_ok'[1].heartbeat = op_options.heartbeat]_vars

\* C31: for every pair of client and broker values the negotiated
\* channel_max and frame_max (the smaller one when the client has a value,
\* else the value of the broker) are stored in the options and sent in
\* tune-ok, together with the heartbeat of the client.
C31_TuneOkSent ==
    [][OpTuneTaken =>
          /\ op_options'.channel_max = Negotiated(op_options.channel_max, op_tune'[1].channel_max)
          /\ op_options'.frame_max = Negotiated(op_options.frame_max, op_tune'[1].frame_max)
          /\ op_tune_ok'[1] = TuneOk(op_options, op_tune'[1])
          /\ op_tune_ok'[1].heartbeat = op_options.heartbeat
          /\ Len(op_wire') = 3
          /\ op_wire'[3] = OpFrame("tune_ok", op_options'.channel_max)]_vars

\* a connection.tune without a channel limit was taken
C31_Witness ==
    /\ op_tune # <<>>
    /\ op_tune[1].channel_max = 0
    /\ op_error = "Value of arguments.channel_max should not be empty"


\* C32: with a client heartbeat of 0 (the value sent in tune-ok) the client
\* never writes a heartbeat frame and never destroys the connection for a
\* heartbeat timeout, whatever heartbeat the broker proposed.
C32_NoHeartbeatActivity ==
    (op_tune_ok # <<>> /\ op_tune_ok[1].heartbeat = 0) =>
        /\ op_hb.sent = 0
        /\ op_error # "Heartbeat timeout expired"

\* the half of it that the checker task honours: without a client heartbeat
\* no checker runs and no heartbeat timeout destroys the connection
C32_NoHeartbeatTimeout ==
    (op_tune_ok # <<>> /\ op_tune_ok[1].heartbeat = 0) =>
        /\ ~op_hb.check
        /\ op_error # "Heartbeat timeout expired"


PublishInit == <<"channel_open", "channel_open_ok", "confirm_select", "confirm_select_ok">>

\* C33: no basic.publish frame is written before channel.open_ok and
\* confirm.select_ok were received, and channel.open and confirm.select are
\* written once, for the first message, and not again for later messages.
C33_InitOnce ==
    /\ Len(pb_init) <= Len(PublishInit)
    /\ \A k \in 1..Len(pb_init) : pb_init[k] = PublishInit[k]
    /\ pb_wire # <<>> => pb_init = PublishInit
    /\ \A i \in DOMAIN pb_msgs :
          i > 1 => pb_msgs[i].stage \notin {"init", "open_tick", "open_wait", "confirm_tick", "confirm_wait"}

\* two messages were published after one channel.open and one confirm.select
C33_Witness ==
    /\ pb_init = PublishInit
    /\ \E f \in 1..Len(pb_wire) : pb_wire[f].msg = 2 /\ pb_wire[f].type = "publish"


\* C34: unsubscribe() marks the channel cancelled and ends the stream once
\* (a second call does nothing), and the channel is then closed by the
\* close sequence: once the pipeline callback and the deferred sends have
\* run, a channel.close frame of the channel is on the wire, unless the
\* broker had closed the channel itself.
C34_UnsubscribeCloses ==
    \A ch \in 1..CdChildren :
        /\ (us_calls[ch] > 0 /\ ~cd_exited) => Cancelled(ch)
        /\ us_ended[ch] <= 1
        /\ (ch \in us_unsubscribed /\ ch \in us_piped /\ CdNoTicks /\ ~cd_exited
              /\ cd_error[ch] = NoError)
             => \E f \in 1..Len(cd_wire) :
                   cd_wire[f].channel = ch /\ cd_wire[f].method = "channel_close"

\* what unsubscribe() itself does: the channel is cancelled, the end of the
\* stream is pushed once, and a second call changes nothing
C34_UnsubscribeOnce ==
    \A ch \in 1..CdChildren :
        /\ (us_calls[ch] > 0 /\ ~cd_exited) => Cancelled(ch)
        /\ us_ended[ch] <= 1
        /\ ch \in us_unsubscribed => us_ended[ch] = 1


\* C35: every basic.deliver pushed into the content assembly carries the
\* consumer tag the broker returned in basic.consume-ok, and a basic.deliver
\* with another tag pushes nothing and destroys the channel with
\* no_consumers, at whatever point of the subscription it arrives.
C35_TagChecked ==
    tg_ok # "" => \A i \in 1..Len(tg_pushed) : tg_pushed[i] = tg_ok

\* once _consumer_tag is set the handler does check: a deliver is pushed
\* only with that tag, and one with another tag destroys the channel
C35_CheckedOnceSet ==
    [][(tg_tag # "" /\ tg_queue # <<>> /\ Head(tg_queue).method_id = BASIC_DELIVER
          /\ tg_destroyed = "none")
        => IF Head(tg_queue).consumer_tag = tg_tag
           THEN tg_pushed' = Append(tg_pushed, tg_tag) /\ tg_destroyed' = "none"
           ELSE tg_pushed' = tg_pushed /\ tg_destroyed' = "no_consumers"]_vars


\* C36: the bytes buffered in the body readable of a delivery never exceed
\* frame_max (its highWaterMark) by more than one frame: the producer stops
\* appending body frames until the application has read.
C36_BodyBounded == bp_buffered <= BpFrameMax + BpFrameMax


\* UniqueId.compare(id) < 0
UniqueIdLess(a, b) ==
    IF a.time # b.time THEN a.time - b.time < 0 ELSE a.sequence - b.sequence < 0

\* C37: the UniqueIds of successive generate() calls are strictly increasing
\* in the order (time, sequence): of two waiters that are pending, the one
\* registered first has the smaller id, also when both were registered in
\* the same millisecond.
C37_UniqueIdsIncrease ==
    \A v, w \in 1..Len(waiters) :
        (/\ waiters[v].state = "pending"
         /\ waiters[w].state = "pending"
         /\ waiters[v].reg_no < waiters[w].reg_no)
        => UniqueIdLess(waiters[v].uid, waiters[w].uid)

\* what generate() does keep: ids never decrease, and the sequence is 0 in
\* every millisecond but the one the module was loaded in
C37_UniqueIdsNeverDecrease ==
    \A v, w \in 1..Len(waiters) :
        (/\ waiters[v].state = "pending"
         /\ waiters[w].state = "pending"
         /\ waiters[v].reg_no < waiters[w].reg_no)
        => /\ ~UniqueIdLess(waiters[w].uid, waiters[v].uid)
           /\ waiters[w].uid.time # UniqueFactoryLastId.time => waiters[w].uid.sequence = 0


\* the call_api promise of waiter i is still pending on a destroyed object
CdPendingOnDestroyed(i) ==
    /\ i \in DOMAIN cd_waiters
    /\ cd_waiters[i].kind = "api"
    /\ cd_waiters[i].state \in {"tick", "registered"}
    /\ cd_destroyed[cd_waiters[i].channel]

CdSettled(i) ==
    /\ i \in DOMAIN cd_waiters
    /\ cd_waiters[i].state \in {"rejected", "resolved"}

\* C38: no call_api promise with a non-empty reply list stays pending for
\* ever once its channel or connection is destroyed: made before the
\* destroy (its deferred registration run or not) or after it, it is
\* eventually settled.
C38_EventuallySettled ==
    \A i \in 1..MaxCdCalls : CdPendingOnDestroyed(i) ~> (CdSettled(i) \/ cd_exited)

\* what destroy does reject: the callbacks registered when it runs
C38_RegisteredRejected ==
    [][\A i \in DOMAIN cd_waiters :
          (/\ cd_waiters[i].kind = "api"
           /\ cd_waiters[i].state = "registered"
           /\ ~cd_destroyed[cd_waiters[i].channel]
           /\ cd_destroyed'[cd_waiters[i].channel])
          => cd_waiters'[i].state = "rejected"]_vars


\* C39: after the client has answered a channel.close of the broker with
\* channel.close_ok it writes no further frame on that channel, in
\* particular no channel.close of its own: none that carries the error of
\* the broker's close, which only the destroy of the channel_close handler
\* sends.
C39_SilentAfterCloseOk ==
    \A f, g \in 1..Len(cd_wire) :
        (f < g /\ cd_wire[f].channel # 0 /\ cd_wire[f].method = "channel_close_ok")
        => ~ /\ cd_wire[g].channel = cd_wire[f].channel
             /\ cd_wire[g].method = "channel_close"
             /\ cd_wire[g].args.reply_code = NOT_FOUND


\* C40: when a command helper call has settled, with a result or with an
\* error, its channel and its connection are closed or destroyed: no socket
\* opened by a command is open then.
C40_NothingLeftOpen ==
    \A c \in 1..MaxCommands :
        cm_outcome[c] # "none" => cm_socket[c] # "open" /\ cm_channel[c] # "open"

\* a call that settles with its result has closed both
C40_ResultClosesAll ==
    \A c \in 1..MaxCommands :
        cm_outcome[c] = "result" => cm_socket[c] = "destroyed" /\ cm_channel[c] = "destroyed"


====
